---- MODULE Spec2Model ----
(***************************************************************************)
(* Request admission pipeline of the NestJS workshop applications:         *)
(* the throttler (rate limiter) wired in workshop 5, the session guards    *)
(* Authorized / Guest, the cookie-token GuestGuard and the passport        *)
(* AuthGuard('jwt'), the login / logout handlers, and the order in which   *)
(* Nest runs the stages of one request.                                    *)
(*                                                                         *)
(* Four applications are built by the workshops; one behaviour of the      *)
(* model runs one of them (variable app):                                  *)
(*   "w3s"  workshop 3, secure-session login (Authorized / Guest redirect) *)
(*   "w3j"  workshop 3, JWT in a cookie (AuthGuard('jwt') / GuestGuard)    *)
(*   "w5s"  workshop 5, secure-session API (Authorized / Guest answer 403) *)
(*   "w5j"  workshop 5, bearer JWT API (Authorized extends AuthGuard)      *)
(* Time is in milliseconds, as in the configuration of the code.           *)
(***************************************************************************)
EXTENDS Integers, Sequences, FiniteSets, TLC

VARIABLES
    app,        \* which of the four applications is running
    now,        \* wall clock, ms
    ticks,      \* number of clock steps taken (bounds the clock)
    storage,    \* throttler storage shared by all workers: key -> entry
    users,      \* the user table (TypeORM repository)
    sessions,   \* session store: session id -> session
    nextSid,    \* next fresh session id
    issued,     \* tokens handed to clients so far (what a client can present)
    req,        \* the request in flight through the pipeline
    served,     \* number of requests answered so far
    burstLimit, \* limit N of the burst under test
    workers,    \* the concurrent workers of a burst: worker -> position
    tasks,      \* the task table (TypeORM repository)
    declared    \* the throttler decorators on the route under test

vars == <<app, now, ticks, storage, users, sessions, nextSid, issued, req,
          served, burstLimit, workers, tasks, declared>>

-----------------------------------------------------------------------------
(* Bounds of the model *)

MaxTicks == 2
MaxLimit == 3
MaxBurst == 4
MaxProcs == 2
MaxSessions == 2
MaxTokens == 2
MaxServed == 3
MaxThrottled == 13
MaxUsers == 2
MaxUserRequests == 4
MaxDeclared == 12
MaxLive == 2
MaxTasks == 3
MaxTaskRequests == 4

-----------------------------------------------------------------------------
(* Configuration constants of the code *)

\* ThrottlerModule.forRoot({throttlers: [{ttl: 60000, limit: 10}]})
ttl == 60000

limitOfTheTutorialText == 100

limit == 10

\* @fastify/secure-session cookie maxAge: the session lasts 15 minutes
maxAgeInSeconds == 15 * 60

maxAge == 15 * 60 * 1000

\* JwtModule.register({signOptions: {expiresIn: '60m'}}) / '1h'
expiresInAsMilliseconds == 60 * 60

expiresIn == 60 * 60 * 1000

\* one second in clock units
Second == 1000

None == "none"

\* Server processes serving the application
Procs == 1..MaxProcs

\* The store a process keeps its throttler records in: every process is
\* given the same Redis-backed storage service.
StoreOfInMemory(p) == <<"memory", p>>

StoreOf(p) == <<"redis", 0>>

Stores == {<<"redis", 0>>} \cup {<<"memory", p>> : p \in Procs}

-----------------------------------------------------------------------------
(* Rate limiter: fixed-window counter on the shared store                  *)

\* An entry that was never created, or whose expiry has passed, is absent.
Live(st, key, t) ==
    key \in DOMAIN st /\ t < st[key].expiresAt

\* increment-and-fetch, one atomic step on the store: the new store.
Increment(st, key, windowTTL, t) ==
    LET e == IF Live(st, key, t)
             THEN [totalHits |-> st[key].totalHits + 1, expiresAt |-> st[key].expiresAt]
             ELSE [totalHits |-> 1, expiresAt |-> t + windowTTL]
    IN  [k \in DOMAIN st \cup {key} |-> IF k = key THEN e ELSE st[k]]

\* The decision on the post-increment value: admitted unless it exceeds
\* the limit (the counter stays incremented either way).
Admitted(hits, lim) == hits <= lim

\* allow(key, limit, windowTTL) -> Decision
allow(st, key, lim, windowTTL, t) ==
    LET st2 == Increment(st, key, windowTTL, t)
    IN  [store    |-> st2,
         admitted |-> Admitted(st2[key].totalHits, lim),
         remaining |-> IF st2[key].totalHits >= lim THEN 0 ELSE lim - st2[key].totalHits,
         resetAt  |-> st2[key].expiresAt]

-----------------------------------------------------------------------------
(* A burst of concurrent requests with one key inside one window           *)

Workers == 1..MaxBurst

BurstKey == <<"burst", "10.0.0.1">>

\* The process a worker runs in
ProcOf(w) == ((w - 1) % MaxProcs) + 1

EmptyStorage == [s \in Stores |-> << >>]

BurstArrive(w) ==
    /\ workers[w] = "idle"
    /\ workers' = [workers EXCEPT ![w] = "arrived"]
    /\ UNCHANGED <<app, now, ticks, storage, users, sessions, nextSid, issued,
                   req, served, burstLimit, tasks, declared>>

BurstAllow(w) ==
    /\ workers[w] = "arrived"
    /\ LET s == StoreOf(ProcOf(w))
           d == allow(storage[s], BurstKey, burstLimit, ttl, now)
       IN  /\ storage' = [storage EXCEPT ![s] = d.store]
           /\ workers' = [workers EXCEPT
                            ![w] = IF d.admitted THEN "admitted" ELSE "rejected"]
    /\ UNCHANGED <<app, now, ticks, users, sessions, nextSid, issued, req,
                   served, burstLimit, tasks, declared>>

-----------------------------------------------------------------------------
(* Credentials and the user table                                          *)

\* argon2.hash / argon2.verify: a salted one-way digest of the password
hash(password) == <<"argon2", password>>

verify(digest, password) == digest = hash(password)

Passwords == {"pw1", "pw2"}

\* Rows of the user table (the database outlives the server process)
RegisteredUsers ==
    << [id |-> 1, username |-> "alice", email |-> "alice@mail", password |-> hash("pw1")],
       [id |-> 2, username |-> "bob",   email |-> "bob@mail",   password |-> hash("pw2")] >>

UserIds == {RegisteredUsers[i].id : i \in DOMAIN RegisteredUsers}

\* Identifiers a client may type into the login form
Identifiers == {"alice", "bob", "alice@mail", "bob@mail", "mallory"}

\* null, as a row of the table
NullUser == [id |-> 0, username |-> "", email |-> "", password |-> <<"null", "">>]

\* repository.findOne({where: {<field>: value}}): the row or null
findOne(table, field, value) ==
    IF \E i \in DOMAIN table : table[i][field] = value
    THEN table[CHOOSE i \in DOMAIN table : table[i][field] = value]
    ELSE NullUser

\* Columns without the unique constraint: no value is refused
TakenNever(table, field, value, id) == FALSE

\* @Column({unique: true}) on username and email: a second row with the
\* same value is refused by the database (the save or update throws)
Taken(table, field, value, id) ==
    \E i \in DOMAIN table : table[i][field] = value /\ table[i].id # id

\* the username that goes with an identifier in the registration form
UsernameFor(identifier) ==
    CASE identifier = "alice@mail" -> "alice"
      [] identifier = "bob@mail" -> "bob"
      [] identifier = "mallory@mail" -> "mallory"
      [] OTHER -> identifier

\* AuthService.register: the password is hashed, the row gets the next id
registerStoresPlain(table, field, dto) ==
    Append(table, [id |-> Len(table) + 1,
                   username |-> UsernameFor(dto.identifier),
                   email |-> IF field = "email" THEN dto.identifier ELSE "",
                   password |-> <<"plain", dto.password>>])

register(table, field, dto) ==
    Append(table, [id |-> Len(table) + 1,
                   username |-> UsernameFor(dto.identifier),
                   email |-> IF field = "email" THEN dto.identifier ELSE "",
                   password |-> hash(dto.password)])

\* Repository.update(id, partial): the columns present in the partial
\* entity are written to the row with this id, if there is one
update(table, id, partial) ==
    [i \in DOMAIN table |->
        IF table[i].id # id THEN table[i]
        ELSE [table[i] EXCEPT
                !.email = IF partial.email # "" THEN partial.email ELSE @,
                !.password = IF partial.password # <<"", "">>
                             THEN partial.password ELSE @]]

\* UsersService.updateUser: the fields as they came in
updateUser(table, id, fields) ==
    update(table, id,
           [email |-> fields.identifier,
            password |-> IF fields.password = "" THEN <<"", "">>
                         ELSE <<"plain", fields.password>>])

\* UsersService.updatePassword: the password is hashed first
updatePassword(table, id, dto) ==
    update(table, id, [email |-> dto.identifier, password |-> hash(dto.password)])

\* The task table: its rows and the last id the database generated
NoTasks == [rows |-> {}, last |-> 0]

\* The fields a client sends for a task: the :id parameter, and the name
\* and the state of the DTO ("" for a field that is absent)
NoTask == [id |-> 0, name |-> "", state |-> ""]

\* TaskService.create: null (the table as it was) when the user does not
\* exist, else a new active task of this user
TaskCreate(table, usertable, id, name) ==
    IF findOne(usertable, "id", id) = NullUser
    THEN table
    ELSE [rows |-> table.rows \cup {[id |-> table.last + 1, name |-> name,
                                     state |-> "active", user |-> id]},
          last |-> table.last + 1]

\* TaskService.findAll: the tasks of the user
TaskFindAll(table, userId) == {t \in table.rows : t.user = userId}

\* Criteria that name the task only
AffectedByTaskId(table, taskId, userId) ==
    {t \in table.rows : t.id = taskId}

\* taskRepository.update / delete with the criteria {id, user: {id}}: the
\* rows affected
Affected(table, taskId, userId) ==
    {t \in table.rows : t.id = taskId /\ t.user = userId}

\* TaskService.update: the fields of the DTO are written to the rows affected
TaskUpdate(table, taskId, userId, dto) ==
    [table EXCEPT !.rows =
        {IF t \in Affected(table, taskId, userId)
         THEN [t EXCEPT !.name = IF dto.name # "" THEN dto.name ELSE @,
                        !.state = IF dto.state # "" THEN dto.state ELSE @]
         ELSE t : t \in table.rows}]

\* TaskService.remove
TaskRemove(table, taskId, userId) ==
    [table EXCEPT !.rows = table.rows \ Affected(table, taskId, userId)]

\* AuthService.login of the session applications and of workshop 5: the
\* user found by username (workshop 3) or email (workshop 5), or null
login(table, field, dto) ==
    LET user == findOne(table, field, dto.identifier)
    IN  IF user # NullUser /\ verify(user.password, dto.password)
        THEN user
        ELSE NullUser

\* AuthService.validateUser of workshop 3 (JWT): the user without its
\* password, or null
validateUser(table, username, pass) ==
    LET user == findOne(table, "username", username)
    IN  IF user # NullUser /\ verify(user.password, pass)
        THEN [user EXCEPT !.password = NullUser.password]
        ELSE NullUser

\* String(n) and parseInt(s) on the ids of the table
String(n) == ToString(n)

parseInt(s) ==
    IF \E n \in 0..9 : ToString(n) = s
    THEN CHOOSE n \in 0..9 : ToString(n) = s
    ELSE -1

\* JavaScript truthiness of a string-or-undefined value: undefined and the
\* empty string are falsy
Truthy(v) == v # "undefined" /\ v # ""

-----------------------------------------------------------------------------
(* Session store: opaque session ids with a fixed time-to-live             *)

SessionIds == 1..MaxSessions

\* the cookie value of a request that carries no session cookie
NoCookie == 0

NoSession == [userId |-> "undefined", createdAt |-> 0, expiresAt |-> 0]

\* create(subjectId) -> the store with a session under the fresh id sid
create(sess, sid, subject, t) ==
    [k \in DOMAIN sess \cup {sid} |->
        IF k = sid
        THEN [userId |-> subject, createdAt |-> t, expiresAt |-> t + maxAge]
        ELSE sess[k]]

\* lookup(sessionId) -> Session | None; a session past expiresAt is absent
lookup(sess, sid, t) ==
    IF sid \in DOMAIN sess /\ ~(t > sess[sid].expiresAt)
    THEN sess[sid]
    ELSE NoSession

\* destroy(sessionId): removes the entry; destroying a missing one is a no-op
destroy(sess, sid) ==
    [k \in DOMAIN sess \ {sid} |-> sess[k]]

\* req.session.get(name) of a request that presented the cookie sid
sessionGet(sess, sid, name, t) ==
    IF name = "userId" THEN lookup(sess, sid, t).userId ELSE "undefined"

-----------------------------------------------------------------------------
(* Token service: signed, self-contained tokens with expiry                *)

\* A payload field the code did not set is undefined: 0 for ids, "" for text
NoPayload == [id |-> 0, sub |-> 0, userId |-> 0, username |-> "", email |-> ""]

NoToken == [kind |-> "none", payload |-> NoPayload, iat |-> 0, exp |-> 0, sig |-> ""]

Garbage == [NoToken EXCEPT !.kind = "garbage"]

\* jwtService.sign(payload): payload, issue time, expiry and signature
sign(payload, secret, t) ==
    [kind |-> "jwt", payload |-> payload, iat |-> t, exp |-> t + expiresIn,
     sig |-> secret]

\* verify(token): parse, check the signature, check the expiry
verifyToken(token, secret, t) ==
    IF token.kind # "jwt" THEN [ok |-> FALSE, error |-> "Malformed", payload |-> NoPayload]
    ELSE IF token.sig # secret
         THEN [ok |-> FALSE, error |-> "InvalidSignature", payload |-> NoPayload]
    ELSE IF t > token.exp
         THEN [ok |-> FALSE, error |-> "Expired", payload |-> NoPayload]
    ELSE [ok |-> TRUE, error |-> "", payload |-> token.payload]

\* The secret JwtModule signs with, and the ones the verifiers are given
ModuleSecret(a) ==
    IF a = "w3j" THEN "YOUR_VERY_SECRET_KEY_HERE" ELSE "process.env.JWT_SECRET"

StrategySecret(a) ==
    IF a = "w3j" THEN "YOUR_VERY_SECRET_KEY_HERE" ELSE "process.env.JWT_SECRET"

GuestGuardSecretFromEnv == "JWT_SECRET"

GuestGuardSecret == "YOUR_VERY_SECRET_KEY_HERE"

\* The payload the login handler signs for a user
PayloadOf(a, user) ==
    IF a = "w3j"
    THEN [NoPayload EXCEPT !.username = user.username, !.sub = user.id]
    ELSE [NoPayload EXCEPT !.userId = user.id, !.email = user.email]

\* JwtStrategy.validate(payload): what becomes request.user
validateKeepsPayload(a, payload) == payload

validate(a, payload) ==
    IF a = "w3j"
    THEN [NoPayload EXCEPT !.userId = payload.sub, !.username = payload.username]
    ELSE payload

-----------------------------------------------------------------------------
(* Routes of the four applications                                         *)

Apps == {"w3s", "w3j", "w5s", "w5j"}

\* route -> [app, guards bound by @UseGuards (controller first, then method),
\*           skip (@SkipThrottle), dto (the validated body type, "" if none)]
Routes ==
    [r \in {"w3s.loginPage", "w3s.login", "w3s.taskList", "w3s.logout",
            "w3s.todoLogout", "w3j.loginPage", "w3j.login", "w3j.taskList",
            "w5s.index", "w5s.login", "w5s.findOne", "w5s.updateUser",
            "w5s.updatePassword",
            "w5j.index", "w5j.login", "w5j.findAll", "w5j.updatePassword",
            "w3j.register", "w5s.register", "w5s.declared",
            "w5s.findAllTasks", "w5s.createTask", "w5s.updateTask",
            "w5s.removeTask", "w5j.createTask", "w5j.updateTask",
            "w5j.removeTask"} |->
      CASE r = "w3s.loginPage"  -> [app |-> "w3s", guards |-> <<"Guest">>, skip |-> FALSE, dto |-> ""]
        [] r = "w3s.login"      -> [app |-> "w3s", guards |-> <<"Guest">>, skip |-> FALSE, dto |-> "AuthDto"]
        [] r = "w3s.taskList"   -> [app |-> "w3s", guards |-> <<"Authorized">>, skip |-> FALSE, dto |-> ""]
        [] r = "w3s.logout"     -> [app |-> "w3s", guards |-> << >>, skip |-> FALSE, dto |-> ""]
        [] r = "w3s.todoLogout" -> [app |-> "w3s", guards |-> <<"Authorized">>, skip |-> FALSE, dto |-> ""]
        [] r = "w3j.loginPage"  -> [app |-> "w3j", guards |-> <<"GuestGuard">>, skip |-> FALSE, dto |-> ""]
        [] r = "w3j.login"      -> [app |-> "w3j", guards |-> <<"GuestGuard", "AuthGuardLocal">>, skip |-> FALSE, dto |-> ""]
        [] r = "w3j.taskList"   -> [app |-> "w3j", guards |-> <<"AuthGuardJwt">>, skip |-> FALSE, dto |-> ""]
        [] r = "w5s.index"      -> [app |-> "w5s", guards |-> << >>, skip |-> TRUE, dto |-> ""]
        [] r = "w5s.login"      -> [app |-> "w5s", guards |-> <<"Guest403">>, skip |-> FALSE, dto |-> "LoginDto"]
        [] r = "w5s.findOne"    -> [app |-> "w5s", guards |-> <<"Authorized403">>, skip |-> FALSE, dto |-> ""]
        [] r = "w5s.updateUser" -> [app |-> "w5s", guards |-> <<"Authorized403">>, skip |-> FALSE, dto |-> "Fields:UpdateUserDto"]
        [] r = "w5s.updatePassword" -> [app |-> "w5s", guards |-> <<"Authorized403">>, skip |-> FALSE, dto |-> "UpdatePasswordDto"]
        [] r = "w5j.index"      -> [app |-> "w5j", guards |-> << >>, skip |-> TRUE, dto |-> ""]
        [] r = "w5j.login"      -> [app |-> "w5j", guards |-> << >>, skip |-> FALSE, dto |-> "LoginDto"]
        [] r = "w5j.findAll"    -> [app |-> "w5j", guards |-> <<"AuthGuardJwt">>, skip |-> FALSE, dto |-> ""]
        [] r = "w5j.updatePassword" -> [app |-> "w5j", guards |-> <<"AuthGuardJwt">>, skip |-> FALSE, dto |-> "UpdatePasswordDto"]
        [] r = "w3j.register"   -> [app |-> "w3j", guards |-> <<"GuestGuard">>, skip |-> FALSE, dto |-> "AuthDto"]
        [] r = "w5s.register"   -> [app |-> "w5s", guards |-> <<"Guest403">>, skip |-> FALSE, dto |-> "Fields:CreateUserDto"]
        [] r = "w5s.declared"   -> [app |-> "w5s", guards |-> << >>, skip |-> FALSE, dto |-> ""]
        [] r \in {"w5s.findAllTasks", "w5s.createTask", "w5s.updateTask",
                  "w5s.removeTask"}
                                -> [app |-> "w5s", guards |-> <<"Authorized403">>, skip |-> FALSE, dto |-> ""]
        [] r \in {"w5j.createTask", "w5j.updateTask", "w5j.removeTask"}
                                -> [app |-> "w5j", guards |-> <<"AuthGuardJwt">>, skip |-> FALSE, dto |-> ""]]

\* The routes of TaskController
TaskRoutes ==
    {"w5s.findAllTasks", "w5s.createTask", "w5s.updateTask", "w5s.removeTask",
     "w5j.findAll", "w5j.createTask", "w5j.updateTask", "w5j.removeTask"}

\* Registration goes on while the user table has room
RegisterRoutes == {"w3j.register", "w5s.register"}

\* The routes served to the clients that registered earlier
CoreRoutes ==
    DOMAIN Routes \ (RegisterRoutes \cup {"w5s.declared"}
                        \cup (TaskRoutes \ {"w5j.findAll"}))

RouteNames == DOMAIN Routes

RoutesOf(a) == {r \in RouteNames : Routes[r].app = a}

\* Workshop 5 provides ThrottlerGuard as APP_GUARD: a global guard, which
\* Nest runs before the guards bound to the controller and the method.
GuardsOfThrottlerLast(r) ==
    IF Routes[r].app \in {"w5s", "w5j"}
    THEN Routes[r].guards \o <<"ThrottlerGuard">>
    ELSE Routes[r].guards

GuardsOf(r) ==
    IF Routes[r].app \in {"w5s", "w5j"}
    THEN <<"ThrottlerGuard">> \o Routes[r].guards
    ELSE Routes[r].guards

\* One counter per route, whoever the client is
KeyOfRouteOnly(r, ip) == <<r, "">>

\* The throttler key: route scope plus the client's network address
KeyOf(r, ip) == <<r, ip>>

\* What the throttler decorators declare at one level (the method or the
\* class): skip is "true" / "false" / "" (not declared), limit and ttl are 0
\* when @Throttle is absent.
Undeclared == [skip |-> "", limit |-> 0, ttl |-> 0]

\* @SkipThrottle()
SkipThrottle == [Undeclared EXCEPT !.skip = "true"]

\* @SkipThrottle({default: false})
DoNotSkip == [Undeclared EXCEPT !.skip = "false"]

\* @Throttle({default: {limit: l, ttl: t}})
Throttle(l, t) == [Undeclared EXCEPT !.limit = l, !.ttl = t]

NothingDeclared == [method |-> Undeclared, class |-> Undeclared]

\* The decorators on the handler of route r and on its controller: the
\* controllers of the applications declare @SkipThrottle() on AppController
\* and nothing else; "w5s.declared" stands for a route that carries the
\* decorators under test.
DeclaredOnNothing(r) == NothingDeclared

DeclaredOn(r) ==
    IF r = "w5s.declared"
    THEN declared
    ELSE [method |-> Undeclared,
          class  |-> IF Routes[r].skip THEN SkipThrottle ELSE Undeclared]

\* Override resolution: the method-level declaration, else the class-level
\* one, else the options of ThrottlerModule.forRoot
Resolve(method, class) ==
    [skip  |-> IF method.skip # "" THEN method.skip = "true"
               ELSE class.skip = "true",
     limit |-> IF method.limit # 0 THEN method.limit
               ELSE IF class.limit # 0 THEN class.limit ELSE limit,
     ttl   |-> IF method.ttl # 0 THEN method.ttl
               ELSE IF class.ttl # 0 THEN class.ttl ELSE ttl]

\* The throttler options in force on route r
OptionsOf(r) == Resolve(DeclaredOn(r).method, DeclaredOn(r).class)

-----------------------------------------------------------------------------
(* Responses                                                               *)

\* A reply: its status, its Location header, the keys of its JSON body, the
\* body's statusCode (0 when the body has none), its message and, when the
\* body serializes a user, the fields of that user (an absent field is the
\* null one)
NoReply ==
    [status |-> 0, location |-> "", body |-> {}, statusCode |-> 0,
     message |-> "", data |-> NullUser]

\* reply.redirect(url) answers 302 unless a status was set before
Redirect(url) == [NoReply EXCEPT !.status = 302, !.location = url]

RedirectWith(code, url) == [NoReply EXCEPT !.status = code, !.location = url]

\* reply.status(code).send({message: msg})
Json(code, msg) ==
    [NoReply EXCEPT !.status = code, !.body = {"message"}, !.message = msg]

\* An exception is known by the status it carries when it is an
\* HttpException; the driver's QueryFailedError is not one and carries none
QueryFailedError == 1

instanceofHttpException(exception) == exception >= 400

\* AllExceptionsFilter.catch: the uniform body for every exception
catch(exception) ==
    LET status == IF instanceofHttpException(exception) THEN exception ELSE 500
        message == IF instanceofHttpException(exception)
                   THEN ""
                   ELSE "Internal server error"
    IN  [NoReply EXCEPT !.status = status,
                        !.body = {"statusCode", "timestamp", "path", "message"},
                        !.statusCode = status,
                        !.message = message]

\* The default handler of the framework, which answers when no filter
\* catches the exception: status, message and the error's name
BaseExceptionFilter(exception) ==
    IF instanceofHttpException(exception)
    THEN [NoReply EXCEPT !.status = exception,
                         !.body = {"statusCode", "message", "error"},
                         !.statusCode = exception]
    ELSE [NoReply EXCEPT !.status = 500,
                         !.body = {"statusCode", "message"},
                         !.statusCode = 500,
                         !.message = "Internal server error"]

\* app.useGlobalFilters(...): the workshop 3 and workshop 5 bootstraps
\* register no filter
FiltersOf(a) == {}

\* What an async canActivate that returns the reply resolves to: the reply
\* is a thenable that settles, with no value, once the response is sent.
AwaitReplyIsReply == "[object Reply]"

AwaitReply == "undefined"

-----------------------------------------------------------------------------
(* Guards: canActivate of each guard class                                 *)
(* An outcome is [pass: the resolved value is truthy, sent: the response   *)
(* the guard itself sent, throws: status of the exception it threw (0 if   *)
(* none), user: what it attached as request.user, clear: it cleared the    *)
(* token cookie].                                                          *)

Pass == [pass |-> TRUE, sent |-> NoReply, throws |-> 0, user |-> NoPayload,
         clear |-> FALSE]

\* Authorized of workshop 3: no userId in the session redirects to /login
Authorized(id) ==
    IF ~Truthy(id)
    THEN [Pass EXCEPT !.pass = Truthy(AwaitReply), !.sent = Redirect("/login")]
    ELSE Pass

\* Guest of workshop 3: a userId in the session redirects to /todo
Guest(id) ==
    IF ~Truthy(id)
    THEN Pass
    ELSE [Pass EXCEPT !.pass = Truthy(AwaitReply), !.sent = Redirect("/todo")]

\* Authorized of workshop 5 (session mode): answers 403 "Not Authorized"
Authorized403AsWorkshop3(id) == Authorized(id)

Authorized403(id) ==
    IF ~Truthy(id)
    THEN [Pass EXCEPT !.pass = Truthy(AwaitReply),
                      !.sent = Json(403, "Not Authorized")]
    ELSE Pass

\* Guest of workshop 5 (session mode): answers 403 "You Aleardy Logged in"
Guest403AdmitsAll(id) == Pass

Guest403(id) ==
    IF ~Truthy(id)
    THEN Pass
    ELSE [Pass EXCEPT !.pass = Truthy(AwaitReply),
                      !.sent = Json(403, "You Aleardy Logged in")]

\* The catch branch admits and leaves the cookie as it is
GuestGuardKeepsCookie(token, t) ==
    IF token.kind = "none" THEN Pass
    ELSE LET v == verifyToken(token, GuestGuardSecret, t)
         IN  IF v.ok
             THEN [Pass EXCEPT !.pass = FALSE, !.sent = Redirect("/todo")]
             ELSE Pass

\* GuestGuard of workshop 3 (token in a cookie)
GuestGuard(token, t) ==
    IF token.kind = "none" THEN Pass
    ELSE LET v == verifyToken(token, GuestGuardSecret, t)
         IN  IF v.ok
             THEN [Pass EXCEPT !.pass = FALSE, !.sent = Redirect("/todo")]
             ELSE [Pass EXCEPT !.clear = TRUE]

\* AuthGuard('jwt') with JwtStrategy: the token from the cookie (workshop 3)
\* or the Authorization header (workshop 5); any failure is Unauthorized
AuthGuardJwtDecodesOnly(a, token, t) ==
    IF token.kind # "jwt"
    THEN [Pass EXCEPT !.pass = FALSE, !.throws = 401]
    ELSE [Pass EXCEPT !.user = validate(a, token.payload)]

AuthGuardJwt(a, token, t) ==
    LET v == verifyToken(token, StrategySecret(a), t)
    IN  IF token.kind = "none" \/ ~v.ok
        THEN [Pass EXCEPT !.pass = FALSE, !.throws = 401]
        ELSE [Pass EXCEPT !.user = validate(a, v.payload)]

\* AuthGuard('local') with LocalStrategy.validate
AuthGuardLocal(table, body) ==
    LET user == validateUser(table, body.identifier, body.password)
    IN  IF body.identifier = "" \/ body.password = "" \/ user = NullUser
        THEN [Pass EXCEPT !.pass = FALSE, !.throws = 401]
        ELSE [Pass EXCEPT !.user = [NoPayload EXCEPT !.id = user.id,
                                                     !.username = user.username]]

-----------------------------------------------------------------------------
(* Requests                                                                *)

NoBody == [identifier |-> "", password |-> ""]

IdentifiersOf(a) ==
    IF a \in {"w3s", "w3j"}
    THEN {"alice", "bob", "mallory"}
    ELSE {"alice@mail", "bob@mail", "mallory@mail"}

\* the column AuthService.login looks the identifier up in
IdField(a) == IF a \in {"w3s", "w3j"} THEN "username" ELSE "email"

LoginRoutes == {"w3s.login", "w3j.login", "w5s.login", "w5j.login"}

\* PATCH user/password carries a password; the multipart fields of PUT user
\* carry a new email and whatever else the client adds, a password included
BodiesOf(r) ==
    IF r \in LoginRoutes
    THEN {[identifier |-> i, password |-> p] :
            i \in IdentifiersOf(Routes[r].app), p \in Passwords} \cup {NoBody}
    ELSE IF r = "w3j.register"
    THEN {[identifier |-> i, password |-> p] :
            i \in IdentifiersOf("w3j"), p \in Passwords} \cup {NoBody}
    ELSE IF r = "w5s.register"
    THEN {[identifier |-> i, password |-> p] :
            i \in IdentifiersOf("w5s"), p \in Passwords \cup {""}}
    ELSE IF Routes[r].dto = "UpdatePasswordDto"
    THEN {[identifier |-> "", password |-> p] : p \in Passwords} \cup {NoBody}
    ELSE IF Routes[r].dto = "Fields:UpdateUserDto"
    THEN {[identifier |-> "carol@mail", password |-> p] : p \in {"", "pw2"}}
         \cup {NoBody}
    ELSE {NoBody}

\* The class-validator constraints of the DTO class of a parameter: AuthDto,
\* LoginDto and CreateUserDto have the identifier and the password
\* @IsNotEmpty, UpdatePasswordDto the password, UpdateUserDto the email (the
\* fields inherited through PartialType are optional).
Satisfies(dto, body) ==
    CASE dto = "" -> TRUE
      [] dto = "UpdatePasswordDto" -> body.password # ""
      [] dto = "Fields:UpdateUserDto" -> body.identifier # ""
      [] OTHER -> body.identifier # "" /\ body.password # ""

\* The parameter is produced by the custom decorator @Fields()
Custom(dto) == dto \in {"Fields:UpdateUserDto", "Fields:CreateUserDto"}

\* ValidationPipe on a parameter: the @Body() parameter is validated against
\* its DTO class; a parameter produced by a custom decorator does not go
\* through the validation.
Valid(dto, body) == Custom(dto) \/ Satisfies(dto, body)

\* What a client sends to a task route: a name to POST tasks, the id of a
\* task and the state "done" to PUT tasks/:id, the id to DELETE tasks/:id
TaskInputsOf(r) ==
    IF r \in {"w5s.createTask", "w5j.createTask"}
    THEN {[NoTask EXCEPT !.name = "buy milk"]}
    ELSE IF r \in {"w5s.updateTask", "w5j.updateTask"}
    THEN {[NoTask EXCEPT !.id = i, !.state = "done"] : i \in 1..MaxTasks}
    ELSE IF r \in {"w5s.removeTask", "w5j.removeTask"}
    THEN {[NoTask EXCEPT !.id = i] : i \in 1..MaxTasks}
    ELSE {NoTask}

Ips == {"10.0.0.1", "10.0.0.2"}

\* A token signed by somebody who does not hold the server's secret
Forged(a) == sign(PayloadOf(a, RegisteredUsers[1]), "attacker's secret", 0)

\* A token of the server with one bit of its signature segment flipped, at
\* either end of the segment
Positions == {"first", "last"}

Tamper(token, pos) == [token EXCEPT !.sig = token.sig \o "^" \o pos]

Tampered == {Tamper(tok, pos) : tok \in issued, pos \in Positions}

Idle ==
    [stage |-> "idle", route |-> "", proc |-> 0, ip |-> "", sid |-> NoCookie,
     session |-> NoSession, token |-> NoToken, body |-> NoBody, gi |-> 1,
     trace |-> << >>, reply |-> NoReply, sends |-> 0, user |-> NoPayload,
     exception |-> 0, clear |-> FALSE, subject |-> 0, task |-> NoTask]

\* A later response replaces the one sent before
SendOverwrites(r, resp) == [r EXCEPT !.reply = resp, !.sends = r.sends + 1]

\* reply.send: the first response is the one the client receives
Send(r, resp) ==
    [r EXCEPT !.reply = IF r.sends = 0 THEN resp ELSE r.reply,
              !.sends = r.sends + 1]

RECURSIVE SendAll(_, _)
SendAll(r, resps) ==
    IF resps = << >> THEN r ELSE SendAll(Send(r, Head(resps)), Tail(resps))

\* A request arrives: the session plugin resolves the session cookie, then
\* the guards of the route are run.
Arrive(routes, ips, procs, cap) ==
    /\ req.stage = "idle"
    /\ served < cap
    /\ \E r \in routes \cap RoutesOf(app), ip \in ips,
          p \in procs,
          sid \in (IF app \in {"w3s", "w5s"} THEN 0..(nextSid - 1) ELSE {NoCookie}),
          tok \in (IF app \in {"w3j", "w5j"}
                   THEN {NoToken, Garbage, Forged(app)} \cup issued \cup Tampered
                   ELSE {NoToken}) :
      \E body \in BodiesOf(r), task \in TaskInputsOf(r) :
        /\ r \in {"w5s.createTask", "w5j.createTask"} => tasks.last < MaxTasks
        /\ r \in {"w3s.login", "w5s.login"} => nextSid <= MaxSessions
        /\ r \in {"w3j.login", "w5j.login"} => Cardinality(issued) < MaxTokens
        /\ r \in RegisterRoutes => Len(users) < MaxUsers
        /\ req' = [Idle EXCEPT !.stage = "guards", !.route = r, !.proc = p,
                               !.ip = ip, !.sid = sid,
                               !.session = lookup(sessions, sid, now),
                               !.token = tok, !.body = body, !.task = task]
    /\ UNCHANGED <<app, now, ticks, storage, users, sessions, nextSid, issued,
                   served, burstLimit, workers, tasks, declared>>

-----------------------------------------------------------------------------
(* The stages of one request: guards, pipes, handler, exception filter     *)

\* ThrottlerGuard.canActivate: skipped routes are admitted untouched, the
\* others are counted in the store of the serving process
\* A throttler that counts only the requests it admits
ThrottlerGuardCountsAdmitted(store, r, ip, t) ==
    IF OptionsOf(r).skip
    THEN [out |-> Pass, store |-> store]
    ELSE LET d == allow(store, KeyOf(r, ip), OptionsOf(r).limit, OptionsOf(r).ttl, t)
         IN  IF d.admitted
             THEN [out |-> Pass, store |-> d.store]
             ELSE [out |-> [Pass EXCEPT !.pass = FALSE, !.throws = 429],
                   store |-> store]

ThrottlerGuard(store, r, ip, t) ==
    IF OptionsOf(r).skip
    THEN [out |-> Pass, store |-> store]
    ELSE LET d == allow(store, KeyOf(r, ip), OptionsOf(r).limit, OptionsOf(r).ttl, t)
         IN  [out   |-> IF d.admitted THEN Pass
                        ELSE [Pass EXCEPT !.pass = FALSE, !.throws = 429],
              store |-> d.store]

\* canActivate of the access guard g on the request rq
GuardOutcome(g, rq) ==
    CASE g = "Authorized"     -> Authorized(rq.session.userId)
      [] g = "Guest"          -> Guest(rq.session.userId)
      [] g = "Authorized403"  -> Authorized403(rq.session.userId)
      [] g = "Guest403"       -> Guest403(rq.session.userId)
      [] g = "GuestGuard"     -> GuestGuard(rq.token, now)
      [] g = "AuthGuardJwt"   -> AuthGuardJwt(app, rq.token, now)
      [] g = "AuthGuardLocal" -> AuthGuardLocal(users, rq.body)

\* What Nest does with the outcome o of guard g: a truthy result runs the
\* next guard; a falsy one raises ForbiddenException (403) unless the guard
\* threw its own exception; either way nothing later runs.
AfterGuard(rq, g, o) ==
    LET r1 == IF o.sent # NoReply THEN Send(rq, o.sent) ELSE rq
        r2 == [r1 EXCEPT !.trace = Append(rq.trace, g),
                         !.clear = rq.clear \/ o.clear]
    IN  IF o.pass
        THEN [r2 EXCEPT !.gi = rq.gi + 1,
                        !.user = IF o.user # NoPayload THEN o.user ELSE rq.user]
        ELSE [r2 EXCEPT !.stage = "filter",
                        !.exception = IF o.throws # 0 THEN o.throws ELSE 403]

GuardStage ==
    /\ req.stage = "guards"
    /\ req.gi <= Len(GuardsOf(req.route))
    /\ LET g == GuardsOf(req.route)[req.gi]
       IN  IF g = "ThrottlerGuard"
           THEN LET s == StoreOf(req.proc)
                    th == ThrottlerGuard(storage[s], req.route, req.ip, now)
                IN  /\ storage' = [storage EXCEPT ![s] = th.store]
                    /\ req' = AfterGuard(req, g, th.out)
           ELSE /\ req' = AfterGuard(req, g, GuardOutcome(g, req))
                /\ UNCHANGED storage
    /\ UNCHANGED <<app, now, ticks, users, sessions, nextSid, issued, served,
                   burstLimit, workers, tasks, declared>>

\* All guards admitted: the pipes run next
GuardsDone ==
    /\ req.stage = "guards"
    /\ req.gi > Len(GuardsOf(req.route))
    /\ req' = [req EXCEPT !.stage = "pipes"]
    /\ UNCHANGED <<app, now, ticks, storage, users, sessions, nextSid, issued,
                   served, burstLimit, workers, tasks, declared>>

\* The global ValidationPipe: an invalid body raises BadRequestException
PipeStage ==
    /\ req.stage = "pipes"
    /\ req' = IF Valid(Routes[req.route].dto, req.body)
              THEN [req EXCEPT !.stage = "handler",
                               !.trace = Append(req.trace, "ValidationPipe")]
              ELSE [req EXCEPT !.stage = "filter", !.exception = 400,
                               !.trace = Append(req.trace, "ValidationPipe")]
    /\ UNCHANGED <<app, now, ticks, storage, users, sessions, nextSid, issued,
                   served, burstLimit, workers, tasks, declared>>

\* The exception filter answers with the status of the exception; a reply
\* that was already sent stays as it is.
FilterStage ==
    /\ req.stage = "filter"
    /\ req' = [Send(req, IF "AllExceptionsFilter" \in FiltersOf(app)
                         THEN catch(req.exception)
                         ELSE BaseExceptionFilter(req.exception)) EXCEPT
                  !.stage = "done",
                  !.trace = Append(req.trace, "ExceptionFilter")]
    /\ UNCHANGED <<app, now, ticks, storage, users, sessions, nextSid, issued,
                   served, burstLimit, workers, tasks, declared>>

\* The response is out; the worker takes the next request.
Finish ==
    /\ req.stage = "done"
    /\ req' = Idle
    /\ served' = served + 1
    /\ UNCHANGED <<app, now, ticks, storage, users, sessions, nextSid, issued,
                   burstLimit, workers, tasks, declared>>

-----------------------------------------------------------------------------
(* Handlers. The effect of a handler on the request rq is                  *)
(* [sends: the responses it sends, in order, sessions, nextSid, issued,    *)
(* users, tasks: the stores after it, throws: the exception it raised,     *)
(* subject: the user id it handed to the services (0: none, -1: NaN)].     *)

NoEffect(resps) ==
    [sends |-> resps, sessions |-> sessions, nextSid |-> nextSid,
     issued |-> issued, users |-> users, tasks |-> tasks, throws |-> 0,
     subject |-> 0]

\* The handler acted for the user with this id
For(id, effect) == [effect EXCEPT !.subject = id]

\* session.set("userId", String(user.id)): a session for the user, its id
\* returned in the cookie
SetUserId(user, resps) ==
    [sends |-> resps,
     sessions |-> create(sessions, nextSid, String(user.id), now),
     nextSid |-> nextSid + 1, issued |-> issued, users |-> users,
     tasks |-> tasks, throws |-> 0, subject |-> 0]

\* GET todo/login, GET auth/login, GET /: render a page
Render == NoEffect(<<Json(200, "")>>)

\* workshop 3 AuthController.login (session)
W3sLogin(rq) ==
    LET user == login(users, "username", rq.body)
    IN  IF user # NullUser
        THEN SetUserId(user, <<RedirectWith(301, "/"),
                               RedirectWith(301, "/todo/login")>>)
        ELSE NoEffect(<<RedirectWith(301, "/todo/login")>>)

\* workshop 3 TodoController.taskList
W3sTaskList(rq) == Render

\* session.delete() then a redirect: AppController.logout and
\* TodoController.logout
LogoutKeepsSession(rq, url) == NoEffect(<<RedirectWith(301, url)>>)

Logout(rq, url) ==
    [NoEffect(<<RedirectWith(301, url)>>) EXCEPT
        !.sessions = destroy(sessions, rq.sid)]

\* workshop 3 AuthController.login (JWT): the token goes into a cookie
W3jLogin(rq) ==
    [NoEffect(<<Redirect("/todo")>>) EXCEPT
        !.issued = issued \cup {sign(PayloadOf("w3j", rq.user),
                                     ModuleSecret("w3j"), now)}]

\* workshop 5 AuthController.create (session)
W5sCreateTellsWhy(rq) ==
    LET user == login(users, "email", rq.body)
    IN  IF findOne(users, "email", rq.body.identifier) = NullUser
        THEN NoEffect(<<Json(404, "User not found")>>)
        ELSE IF user = NullUser
        THEN NoEffect(<<Json(401, "Wrong password")>>)
        ELSE SetUserId(user, <<Json(201, "logged in")>>)

W5sCreate(rq) ==
    LET user == login(users, "email", rq.body)
    IN  IF user = NullUser
        THEN NoEffect(<<Json(401, "Invalid credentials")>>)
        ELSE SetUserId(user, <<Json(201, "logged in")>>)

\* reply.send(user): the whole row goes into the body
W5sFindOneSendsEntity(rq) ==
    LET userSession == parseInt(rq.session.userId)
        user == findOne(users, "id", userSession)
    IN  IF user = NullUser
        THEN For(userSession, NoEffect(<<Json(404, "User not found")>>))
        ELSE For(userSession, NoEffect(<<[Json(201, "") EXCEPT !.data = user]>>))

\* workshop 5 UsersController.findOne: the body is built from id, username,
\* email (and the avatar's path), field by field
W5sFindOne(rq) ==
    LET userSession == parseInt(rq.session.userId)
        user == findOne(users, "id", userSession)
    IN  IF user = NullUser
        THEN For(userSession, NoEffect(<<Json(404, "User not found")>>))
        ELSE For(userSession,
                 NoEffect(<<[Json(201, "") EXCEPT
                               !.data = [NullUser EXCEPT !.id = user.id,
                                                         !.username = user.username,
                                                         !.email = user.email]]>>))

\* workshop 5 AuthController.create (JWT): the token goes into the body
W5jCreateRevokesOlder(rq) ==
    LET user == login(users, "email", rq.body)
    IN  IF user = NullUser
        THEN NoEffect(<<Json(401, "Invalid credentials")>>)
        ELSE [NoEffect(<<Json(201, "logged in")>>) EXCEPT
                !.issued = {tok \in issued : tok.payload.userId # user.id}
                           \cup {sign(PayloadOf("w5j", user),
                                      ModuleSecret("w5j"), now)}]

W5jCreate(rq) ==
    LET user == login(users, "email", rq.body)
    IN  IF user = NullUser
        THEN NoEffect(<<Json(401, "Invalid credentials")>>)
        ELSE [NoEffect(<<Json(201, "logged in")>>) EXCEPT
                !.issued = issued \cup {sign(PayloadOf("w5j", user),
                                             ModuleSecret("w5j"), now)}]

\* An exception the handler does not catch
Throws(status) == [NoEffect(<< >>) EXCEPT !.throws = status]

\* The user id a handler of workshop 5 takes from the request: the session's
\* userId in session mode, request.user.userId in token mode
UserIdOf(rq) ==
    IF Routes[rq.route].app = "w5j"
    THEN rq.user.userId
    ELSE parseInt(rq.session.userId)

\* Errors that are not HttpExceptions: the Error('User not found') of
\* TaskService.findAll, and the ReferenceError of reading a variable that
\* is not declared
UserNotFoundError == 2

ReferenceError == 3

\* workshop 5 TaskController.findAll
TaskControllerFindAll(rq) ==
    IF findOne(users, "id", UserIdOf(rq)) = NullUser
    THEN For(UserIdOf(rq), Throws(UserNotFoundError))
    ELSE For(UserIdOf(rq), NoEffect(<<Json(201, "")>>))

W5jFindAll(rq) == TaskControllerFindAll(rq)

\* workshop 5 TaskController.create
TaskControllerCreate(rq) ==
    IF findOne(users, "id", UserIdOf(rq)) = NullUser
    THEN For(UserIdOf(rq), NoEffect(<<Json(401, "Couldn't Create task")>>))
    ELSE [NoEffect(<<Json(201, "Task created successfully")>>) EXCEPT
            !.tasks = TaskCreate(tasks, users, UserIdOf(rq), rq.task.name),
            !.subject = UserIdOf(rq)]

\* The handler with req among its parameters: the service is called, not
\* awaited, and the success is sent
TaskControllerUpdateWithReq(rq) ==
    [NoEffect(<<Json(201, "Task updated successfully")>>) EXCEPT
        !.tasks = TaskUpdate(tasks, rq.task.id, UserIdOf(rq), rq.task),
        !.subject = UserIdOf(rq)]

\* workshop 5 TaskController.update: req is not a parameter of the handler,
\* so reading req.user (req.session) raises before the service is called
TaskControllerUpdate(rq) == Throws(ReferenceError)

\* workshop 5 TaskController.remove: the same
TaskControllerRemove(rq) == Throws(ReferenceError)

\* workshop 3 AuthController.register (JWT)
W3jRegister(rq) ==
    IF Taken(users, "username", rq.body.identifier, 0)
    THEN Throws(QueryFailedError)
    ELSE [NoEffect(<<Redirect("/auth/login")>>) EXCEPT
            !.users = register(users, "username", rq.body)]

\* workshop 5 AuthController.register
W5sRegister(rq) ==
    IF \/ Taken(users, "email", rq.body.identifier, 0)
       \/ Taken(users, "username", UsernameFor(rq.body.identifier), 0)
    THEN Throws(QueryFailedError)
    ELSE [NoEffect(<<Json(201, "Registred")>>) EXCEPT
            !.users = register(users, "email", rq.body)]

\* workshop 5 UsersController.updateUser (session)
W5sUpdateUser(rq) ==
    LET userSession == parseInt(rq.session.userId)
    IN  IF rq.body.identifier # ""
           /\ Taken(users, "email", rq.body.identifier, userSession)
        THEN For(userSession, Throws(QueryFailedError))
        ELSE [NoEffect(<<Json(201, "User profile updated successfully")>>) EXCEPT
                !.users = updateUser(users, userSession, rq.body),
                !.subject = userSession]

\* workshop 5 UsersController.updatePassword (session): it reads the
\* session value "id", which login never sets
W5sUpdatePassword(rq) ==
    LET userSession == parseInt("undefined")
    IN  [NoEffect(<<Json(201, "Password updated successfully")>>) EXCEPT
            !.users = updatePassword(users, userSession, rq.body),
            !.subject = userSession]

\* workshop 5 UsersController.updatePassword (JWT): req.user.userId
W5jUpdatePassword(rq) ==
    [NoEffect(<<Json(201, "Password updated successfully")>>) EXCEPT
        !.users = updatePassword(users, rq.user.userId, rq.body),
        !.subject = rq.user.userId]

Handler(rq) ==
    CASE rq.route = "w3s.loginPage"  -> Render
      [] rq.route = "w3s.login"      -> W3sLogin(rq)
      [] rq.route = "w3s.taskList"   -> W3sTaskList(rq)
      [] rq.route = "w3s.logout"     -> Logout(rq, "/login")
      [] rq.route = "w3s.todoLogout" -> Logout(rq, "/todo/login")
      [] rq.route = "w3j.loginPage"  -> Render
      [] rq.route = "w3j.login"      -> W3jLogin(rq)
      [] rq.route = "w3j.taskList"   -> Render
      [] rq.route = "w5s.index"      -> Render
      [] rq.route = "w5s.login"      -> W5sCreate(rq)
      [] rq.route = "w5s.findOne"    -> W5sFindOne(rq)
      [] rq.route = "w5j.index"      -> Render
      [] rq.route = "w5j.login"      -> W5jCreate(rq)
      [] rq.route = "w5j.findAll"    -> W5jFindAll(rq)
      [] rq.route = "w5s.updateUser" -> W5sUpdateUser(rq)
      [] rq.route = "w5s.updatePassword" -> W5sUpdatePassword(rq)
      [] rq.route = "w5j.updatePassword" -> W5jUpdatePassword(rq)
      [] rq.route = "w3j.register"   -> W3jRegister(rq)
      [] rq.route = "w5s.register"   -> W5sRegister(rq)
      [] rq.route = "w5s.declared"   -> Render
      [] rq.route = "w5s.findAllTasks" -> TaskControllerFindAll(rq)
      [] rq.route \in {"w5s.createTask", "w5j.createTask"}
                                     -> TaskControllerCreate(rq)
      [] rq.route \in {"w5s.updateTask", "w5j.updateTask"}
                                     -> TaskControllerUpdate(rq)
      [] rq.route \in {"w5s.removeTask", "w5j.removeTask"}
                                     -> TaskControllerRemove(rq)

HandlerStage ==
    /\ req.stage = "handler"
    /\ LET e == Handler(req)
       IN  /\ req' = [SendAll(req, e.sends) EXCEPT
                        !.stage = IF e.throws # 0 THEN "filter" ELSE "done",
                        !.exception = e.throws,
                        !.subject = e.subject,
                        !.trace = Append(req.trace, "Handler")]
           /\ sessions' = e.sessions
           /\ nextSid' = e.nextSid
           /\ issued' = e.issued
           /\ users' = e.users
           /\ tasks' = e.tasks
    /\ UNCHANGED <<app, now, ticks, storage, served, burstLimit, workers,
                   declared>>

-----------------------------------------------------------------------------
(* Time                                                                    *)

\* How long a login of the application lasts: the session cookie's maxAge
\* or the token's expiresIn
Lifetime(a) == IF a \in {"w3s", "w5s"} THEN maxAge ELSE expiresIn

Tick(steps) ==
    /\ ticks < MaxTicks
    /\ \E d \in steps : now' = now + d
    /\ ticks' = ticks + 1
    /\ UNCHANGED <<app, storage, users, sessions, nextSid, issued, req, served,
                   burstLimit, workers, tasks, declared>>

-----------------------------------------------------------------------------
(* Specifications                                                          *)

InitCommon ==
    /\ now = 0
    /\ ticks = 0
    /\ sessions = << >>
    /\ nextSid = 1
    /\ req = Idle
    /\ served = 0
    /\ workers = [w \in Workers |-> "idle"]
    /\ tasks = NoTasks

\* The throttler records survive a restart of the server: the store is
\* empty, or holds the window of a client who has used up the limit.
Exhausted(r, ip) ==
    [EmptyStorage EXCEPT
        ![StoreOf(1)] = [k \in {KeyOf(r, ip)} |->
                            [totalHits |-> limit, expiresAt |-> ttl]]]

\* The applications serving requests
Init ==
    /\ InitCommon
    /\ app \in Apps
    /\ users = RegisteredUsers
    /\ issued = {}
    /\ storage \in (IF app \in {"w5s", "w5j"}
                    THEN {EmptyStorage,
                          Exhausted(IF app = "w5s" THEN "w5s.findOne" ELSE "w5j.findAll",
                                    "10.0.0.1")}
                    ELSE {EmptyStorage})
    /\ burstLimit = limit
    /\ declared = NothingDeclared

Next ==
    \/ Arrive(CoreRoutes, {"10.0.0.1"}, {1}, MaxServed)
    \/ GuardStage
    \/ GuardsDone
    \/ PipeStage
    \/ HandlerStage
    \/ FilterStage
    \/ Finish
    \/ Tick({Second, Lifetime(app)})

Spec == Init /\ [][Next]_vars

\* A burst of concurrent workers against one key, for a limit N
InitBurst ==
    /\ InitCommon
    /\ app = "w5j"
    /\ users = RegisteredUsers
    /\ issued = {}
    /\ storage = EmptyStorage
    /\ burstLimit \in 1..MaxLimit
    /\ declared = NothingDeclared

NextBurst ==
    \E w \in Workers : BurstArrive(w) \/ BurstAllow(w)

SpecBurst == InitBurst /\ [][NextBurst]_vars

\* Workshop 5 under a stream of requests long enough to exhaust the limit,
\* from clients one of which holds the token of its login
InitLimiter ==
    /\ InitCommon
    /\ app = "w5j"
    /\ users = RegisteredUsers
    /\ issued = {sign(PayloadOf("w5j", RegisteredUsers[1]), ModuleSecret("w5j"), 0)}
    /\ storage = EmptyStorage
    /\ burstLimit = limit
    /\ declared = NothingDeclared

NextLimiter ==
    \/ Arrive({"w5j.findAll"}, Ips, Procs, MaxThrottled)
    \/ GuardStage
    \/ GuardsDone
    \/ PipeStage
    \/ HandlerStage
    \/ FilterStage
    \/ Finish
    \/ Tick({Second, ttl})

SpecLimiter == InitLimiter /\ [][NextLimiter]_vars

\* The applications with a server that keeps running every request it has
\* taken: each await of a guard, of the pipe, of the handler and of the
\* filter is resumed by the event loop.
NextLive ==
    \/ Arrive(CoreRoutes, {"10.0.0.1"}, {1}, MaxLive)
    \/ GuardStage
    \/ GuardsDone
    \/ PipeStage
    \/ HandlerStage
    \/ FilterStage
    \/ Finish
    \/ Tick({Lifetime(app)})

SpecLive ==
    /\ Init
    /\ [][NextLive]_vars
    /\ WF_vars(GuardStage)
    /\ WF_vars(GuardsDone)
    /\ WF_vars(PipeStage)
    /\ WF_vars(HandlerStage)
    /\ WF_vars(FilterStage)

\* The task routes of workshop 5, in session mode and in token mode, for
\* the users who registered earlier
InitTasks ==
    /\ InitCommon
    /\ app \in {"w5s", "w5j"}
    /\ users = RegisteredUsers
    /\ issued = {}
    /\ storage = EmptyStorage
    /\ burstLimit = limit
    /\ declared = NothingDeclared

NextTasks ==
    \/ Arrive(TaskRoutes \cup {"w5s.login", "w5j.login"}, {"10.0.0.1"}, {1},
              MaxTaskRequests)
    \/ GuardStage
    \/ GuardsDone
    \/ PipeStage
    \/ HandlerStage
    \/ FilterStage
    \/ Finish

SpecTasks == InitTasks /\ [][NextTasks]_vars

\* TaskService called with the user id and the task fields the controller
\* hands over: the id of a user, of nobody (3) or NaN (-1)
Callers == UserIds \cup {3, -1}

TaskNames == {"buy milk"}

TaskStates == {"active", "done"}

\* The call made: its method and the user id passed
Called(method, userId) == [Idle EXCEPT !.route = method, !.subject = userId]

CallCreate ==
    /\ tasks.last < MaxTasks
    /\ \E userId \in Callers, name \in TaskNames :
          /\ tasks' = TaskCreate(tasks, users, userId, name)
          /\ req' = Called("TaskService.create", userId)
    /\ UNCHANGED <<app, now, ticks, storage, users, sessions, nextSid, issued,
                   served, burstLimit, workers, declared>>

CallFindAll ==
    /\ \E userId \in Callers : req' = Called("TaskService.findAll", userId)
    /\ UNCHANGED <<app, now, ticks, storage, users, sessions, nextSid, issued,
                   served, burstLimit, workers, tasks, declared>>

CallUpdate ==
    /\ \E userId \in Callers, taskId \in 1..MaxTasks, state \in TaskStates :
          /\ tasks' = TaskUpdate(tasks, taskId, userId,
                                 [NoTask EXCEPT !.state = state])
          /\ req' = Called("TaskService.update", userId)
    /\ UNCHANGED <<app, now, ticks, storage, users, sessions, nextSid, issued,
                   served, burstLimit, workers, declared>>

CallRemove ==
    /\ \E userId \in Callers, taskId \in 1..MaxTasks :
          /\ tasks' = TaskRemove(tasks, taskId, userId)
          /\ req' = Called("TaskService.remove", userId)
    /\ UNCHANGED <<app, now, ticks, storage, users, sessions, nextSid, issued,
                   served, burstLimit, workers, declared>>

InitTaskService ==
    /\ InitCommon
    /\ app = "w5j"
    /\ users = RegisteredUsers
    /\ issued = {}
    /\ storage = EmptyStorage
    /\ burstLimit = limit
    /\ declared = NothingDeclared

NextTaskService == CallCreate \/ CallFindAll \/ CallUpdate \/ CallRemove

SpecTaskService == InitTaskService /\ [][NextTaskService]_vars

\* The throttler on a route that carries @Throttle / @SkipThrottle
\* decorators, at the method level, the class level, both or neither, and on
\* the index route of AppController; the store may hold an exhausted window
\* of the route from before the decorators were put on.
MethodLevel == {Undeclared, SkipThrottle, DoNotSkip, Throttle(2, Second)}

ClassLevel == {Undeclared, SkipThrottle, Throttle(3, 2 * Second)}

InitOverride ==
    /\ InitCommon
    /\ app = "w5s"
    /\ users = RegisteredUsers
    /\ issued = {}
    /\ storage \in {EmptyStorage, Exhausted("w5s.declared", "10.0.0.1"),
                    Exhausted("w5s.index", "10.0.0.1")}
    /\ burstLimit = limit
    /\ declared \in [method : MethodLevel, class : ClassLevel]

NextOverride ==
    \/ Arrive({"w5s.declared", "w5s.index"}, {"10.0.0.1"}, {1}, MaxDeclared)
    \/ GuardStage
    \/ GuardsDone
    \/ PipeStage
    \/ HandlerStage
    \/ FilterStage
    \/ Finish
    \/ Tick({Second})

SpecOverride == InitOverride /\ [][NextOverride]_vars

\* The user table from its first registration on: register, login, profile
\* update and password change
InitUsers ==
    /\ InitCommon
    /\ app \in {"w3j", "w5s"}
    /\ users = << >>
    /\ issued = {}
    /\ storage = EmptyStorage
    /\ burstLimit = limit
    /\ declared = NothingDeclared

UserRoutes ==
    {"w3j.register", "w3j.login", "w5s.register", "w5s.login", "w5s.findOne",
     "w5s.updateUser", "w5s.updatePassword"}

NextUsers ==
    \/ Arrive(UserRoutes, {"10.0.0.1"}, {1}, MaxUserRequests)
    \/ GuardStage
    \/ GuardsDone
    \/ PipeStage
    \/ HandlerStage
    \/ FilterStage
    \/ Finish

SpecUsers == InitUsers /\ [][NextUsers]_vars

TypeOK ==
    /\ app \in Apps
    /\ req.stage \in {"idle", "guards", "pipes", "handler", "filter", "done"}

-----------------------------------------------------------------------------
(* Properties                                                              *)

BurstCount(pc) == Cardinality({w \in Workers : workers[w] = pc})

Min(a, b) == IF a < b THEN a ELSE b

\* C1: rate limiter exactness under concurrency. Of the workers of a burst
\* that have been decided so far, in whatever order and in whichever process
\* they ran, exactly min(decided, N) are admitted and the rest rejected; so
\* once a burst of M > N is through, exactly N are admitted and M - N
\* rejected.
C1_BurstExact ==
    LET decided == BurstCount("admitted") + BurstCount("rejected")
    IN  /\ BurstCount("admitted") = Min(decided, burstLimit)
        /\ BurstCount("rejected") = decided - Min(decided, burstLimit)
        /\ (decided = MaxBurst /\ MaxBurst > burstLimit)
              => /\ BurstCount("admitted") = burstLimit
                 /\ BurstCount("rejected") = MaxBurst - burstLimit

\* A burst of M > N workers, spread over the processes, all decided
C1_Witness ==
    /\ BurstCount("admitted") + BurstCount("rejected") = MaxBurst
    /\ MaxBurst > burstLimit
    /\ BurstCount("rejected") > 0
    /\ \E v, w \in Workers : ProcOf(v) # ProcOf(w) /\ workers[v] = "admitted"

\* The requests of the key counted in the open window of the store
Counted(st, key, t) ==
    IF key \in DOMAIN st /\ t < st[key].expiresAt THEN st[key].totalHits ELSE 0

\* C2: fixed-window scenario. With limit = 10 and windowTTL = 60 s, a
\* request is admitted by the throttler when fewer than 10 requests of its
\* key were counted in the open window and is rejected otherwise, the
\* rejection is answered with statusCode 429, and the first request of a key
\* opens a window that closes 60 s later (so a request that comes 61 s
\* after a burst of 12 is admitted again).
C2_Step ==
    /\ (req.stage = "guards" /\ req.gi = 1 /\ req'.trace = <<"ThrottlerGuard">>)
          => LET key == KeyOf(req.route, req.ip)
                 n == Counted(storage[<<"redis", 0>>], key, now)
                 e == storage'[<<"redis", 0>>][key]
             IN  /\ e.totalHits = n + 1
                 /\ (n = 0) => (e.expiresAt = now + 60 * Second)
                 /\ (n < 10) => (req'.stage = "guards" /\ req'.gi = 2)
                 /\ (n >= 10) => (req'.stage = "filter" /\ req'.exception = 429)
    /\ (req.stage = "filter" /\ req.exception = 429)
          => (req'.stage = "done" => req'.reply.status = 429)

C2_FixedWindow == [][C2_Step]_vars

\* Twelve requests of one client in the first second, the last two answered
\* 429, and 61 s later its next request passes the throttler
C2_Witness ==
    /\ served = 12
    /\ now = 61 * Second
    /\ req.ip = "10.0.0.1"
    /\ req.trace = <<"ThrottlerGuard">>
    /\ req.stage = "guards"
    /\ DOMAIN storage[<<"redis", 0>>] = {KeyOf("w5j.findAll", "10.0.0.1")}
    /\ storage[<<"redis", 0>>][KeyOf("w5j.findAll", "10.0.0.1")].totalHits = 1

\* The request was stopped by its i-th stage / got past it
RejectedAt(i) ==
    \/ i = Len(req.trace) /\ req.stage = "filter"
    \/ i < Len(req.trace) /\ req.trace[i + 1] = "ExceptionFilter"

AdmittedAt(i) ==
    \/ i = Len(req.trace) /\ req.stage \in {"guards", "pipes"}
    \/ i < Len(req.trace) /\ req.trace[i + 1] # "ExceptionFilter"

Ran(stage) == \E i \in DOMAIN req.trace : req.trace[i] = stage

\* C3: guard symmetry. Whatever session cookie or token a request presents,
\* the authenticated-required guard admits it exactly when it carries a valid
\* identity (a live session, or a token issued by the server and not
\* expired) and the guest-required guard admits it exactly when it does not:
\* never both, never neither.
C3_GuardSymmetry ==
    /\ \A sid \in 0..MaxSessions :
          LET id == sessionGet(sessions, sid, "userId", now)
              valid == sid \in DOMAIN sessions /\ now <= sessions[sid].expiresAt
          IN  /\ Authorized(id).pass = valid
              /\ Guest(id).pass = ~valid
              /\ Authorized403(id).pass = valid
              /\ Guest403(id).pass = ~valid
    /\ app = "w3j" =>
          \A tok \in {NoToken, Garbage, Forged(app)} \cup issued :
             LET valid == tok \in issued /\ now <= tok.exp
             IN  /\ AuthGuardJwt(app, tok, now).pass = valid
                 /\ GuestGuard(tok, now).pass = ~valid

\* A logged-in client is turned away from the login route by Guest
C3_Witness ==
    /\ req.stage = "done"
    /\ req.route = "w5s.login"
    /\ req.sid \in DOMAIN sessions
    /\ now <= sessions[req.sid].expiresAt
    /\ req.trace = <<"ThrottlerGuard", "Guest403", "ExceptionFilter">>
    /\ Authorized403(req.session.userId).pass

AuthRequired == {"Authorized", "Authorized403", "AuthGuardJwt"}

GuestRequired == {"Guest", "Guest403", "GuestGuard"}

RejectedBy(guards) ==
    \E i \in DOMAIN req.trace : req.trace[i] \in guards /\ RejectedAt(i)

\* C4 as stated: every rejection by an authenticated-required guard is
\* answered Unauthorized (401).
C4_Original ==
    (req.stage = "done" /\ RejectedBy(AuthRequired)) => req.reply.status = 401

\* C4 as amended: a request without a valid identity never gets past an
\* authenticated-required guard. In token mode every failure (no token,
\* malformed, wrongly signed, expired) is answered the same 401; in session
\* mode no or an expired session is answered by a redirect to /login
\* (workshop 3) or by 403 "Not Authorized" (workshop 5).
C4_Step ==
    /\ \A g \in AuthRequired :
          (req.stage = "guards" /\ req'.trace = Append(req.trace, g))
             => LET identity ==
                       IF g = "AuthGuardJwt"
                       THEN req.token \in issued /\ now <= req.token.exp
                       ELSE req.sid \in DOMAIN sessions
                            /\ req.session = sessions[req.sid]
                            /\ req.session.userId \in {"1", "2"}
                IN  IF identity
                    THEN req'.stage = "guards" /\ req'.sends = 0
                    ELSE /\ req'.stage = "filter"
                         /\ g = "AuthGuardJwt" => req'.exception = 401 /\ req'.sends = 0
                         /\ g = "Authorized" => req'.reply = Redirect("/login")
                         /\ g = "Authorized403" => req'.reply = Json(403, "Not Authorized")
    /\ (req.stage = "filter" /\ RejectedBy(AuthRequired) /\ req' # req)
          => /\ req'.stage = "done"
             /\ req'.reply = IF req.sends > 0 THEN req.reply ELSE BaseExceptionFilter(401)

C4_Amended == [][C4_Step]_vars

\* An expired token is answered 401
C4_Witness ==
    /\ req.stage = "done"
    /\ req.token \in issued
    /\ now > req.token.exp
    /\ RejectedBy({"AuthGuardJwt"})
    /\ req.reply.status = 401

\* C5: a request its guard does not admit is blocked at once. When
\* Authorized finds no userId in the session, or Guest finds one, nothing
\* after the guard runs but the exception filter: no pipe, no handler.
C5_Blocked ==
    \A i \in DOMAIN req.trace :
       (\/ req.trace[i] \in {"Authorized", "Authorized403"}
              /\ ~Truthy(req.session.userId)
        \/ req.trace[i] \in {"Guest", "Guest403"}
              /\ Truthy(req.session.userId))
       => /\ RejectedAt(i)
          /\ ~Ran("ValidationPipe")
          /\ ~Ran("Handler")
          /\ req.sends >= 1

\* A request without a session was redirected by Authorized and is done
C5_Witness ==
    /\ req.stage = "done"
    /\ req.route = "w3s.taskList"
    /\ req.trace = <<"Authorized", "ExceptionFilter">>
    /\ req.reply = Redirect("/login")

\* C6 as stated: every rejection by a guest-required guard is answered
\* Forbidden (403).
C6_Original ==
    (req.stage = "done" /\ RejectedBy(GuestRequired)) => req.reply.status = 403

\* C6 as amended: a guest-required guard rejects a request exactly when an
\* identity is resolved for it (a userId in its session, or a token issued
\* by the server and still valid) and admits it otherwise. The rejection is
\* 403 "You Aleardy Logged in" in workshop 5 and a redirect to /todo in
\* workshop 3; the handler of a rejected request does not run.
C6_Amended ==
    \A i \in DOMAIN req.trace :
       LET g == req.trace[i]
           answer == IF g = "Guest403"
                     THEN Json(403, "You Aleardy Logged in")
                     ELSE Redirect("/todo")
       IN  g \in GuestRequired =>
             /\ g \in {"Guest", "Guest403"} =>
                   RejectedAt(i) = (req.session.userId \in {"1", "2"})
             /\ g = "GuestGuard" =>
                   /\ RejectedAt(i) => req.token \in issued /\ req.token.iat <= now
                   /\ (req.token \in issued /\ now <= req.token.exp) => RejectedAt(i)
                   /\ req.token \notin issued => AdmittedAt(i)
             /\ RejectedAt(i) => /\ req.reply = answer
                                 /\ ~Ran("Handler")
             /\ RejectedAt(i) \/ AdmittedAt(i)

\* A logged-in client asking for the login page of workshop 3 is redirected
C6_Witness ==
    /\ req.stage = "done"
    /\ req.route \in {"w3s.loginPage", "w3s.login"}
    /\ req.sid \in DOMAIN sessions
    /\ req.session.userId \in {"1", "2"}
    /\ req.trace = <<"Guest", "ExceptionFilter">>
    /\ req.reply = Redirect("/todo")

\* The stages a request to a route goes through when nothing stops it
Pipeline(r) ==
    (IF Routes[r].app \in {"w5s", "w5j"}
     THEN <<"ThrottlerGuard">> ELSE << >>)
    \o Routes[r].guards \o <<"ValidationPipe", "Handler">>

IsPrefix(s, t) == Len(s) <= Len(t) /\ s = SubSeq(t, 1, Len(s))

\* C7: a request goes through the rate limiter, the access guards, input
\* validation, the handler and, on a failure, the error boundary, in this
\* order. A stage that rejects stops the pipeline: only the error boundary
\* follows. A request over the rate limit is answered 429 before any
\* identity is resolved for it; a request a guard rejects is never validated.
C7_StageOrder ==
    req.stage # "idle" =>
       LET n == Len(req.trace)
           failed == n > 0 /\ req.trace[n] = "ExceptionFilter"
           stages == IF failed THEN SubSeq(req.trace, 1, n - 1) ELSE req.trace
       IN  /\ IsPrefix(stages, Pipeline(req.route))
           /\ failed => req.stage = "done" /\ req.exception # 0
           /\ req.exception = 429 =>
                 /\ stages = <<"ThrottlerGuard">>
                 /\ req.user = NoPayload
                 /\ req.stage = "done" => req.reply = BaseExceptionFilter(429)
           /\ (\E i \in 1..Len(stages) :
                  stages[i] \in AuthRequired \cup GuestRequired /\ RejectedAt(i))
                 => ~Ran("ValidationPipe")
           /\ Ran("Handler") => stages = Pipeline(req.route)

\* A request with a valid token is answered 429 by the limiter alone
C7_Witness ==
    /\ req.stage = "done"
    /\ req.route = "w5j.findAll"
    /\ req.token \in issued
    /\ now <= req.token.exp
    /\ req.trace = <<"ThrottlerGuard", "ExceptionFilter">>
    /\ req.reply.status = 429

\* The registered users whose credentials the body of the request carries
Matching(rq) ==
    {i \in DOMAIN users :
        /\ rq.body.identifier \in {users[i].username, users[i].email}
        /\ users[i].password = <<"argon2", rq.body.password>>}

HandlerStepOf(routes) ==
    req.stage = "handler" /\ req.route \in routes /\ req'.stage = "done"

\* C8: session expiry. A successful login creates a session of the user
\* that logged in with expiresAt = createdAt + 15 minutes; no later step
\* changes a session that stays in the store, so no request extends it. A
\* request that presents the session before the 15 minutes have elapsed
\* resolves that user, and one that presents it after they have elapsed
\* resolves nobody.
C8_Step ==
    /\ HandlerStepOf({"w3s.login", "w5s.login"}) =>
          IF Matching(req) = {}
          THEN sessions' = sessions
          ELSE /\ DOMAIN sessions' = DOMAIN sessions \cup {nextSid}
               /\ nextSid \notin DOMAIN sessions
               /\ \E i \in Matching(req) :
                     sessions'[nextSid] =
                        [userId |-> ToString(users[i].id), createdAt |-> now,
                         expiresAt |-> now + 15 * 60 * Second]
    /\ \A sid \in DOMAIN sessions \cap DOMAIN sessions' :
          sessions'[sid] = sessions[sid]
    /\ (req.stage = "idle" /\ req'.stage = "guards" /\ req'.sid \in DOMAIN sessions) =>
          LET s == sessions[req'.sid]
          IN  /\ now < s.createdAt + 15 * 60 * Second =>
                    req'.session.userId = s.userId /\ s.userId \in {"1", "2"}
              /\ now > s.createdAt + 15 * 60 * Second =>
                    req'.session.userId = "undefined"

C8_SessionExpiry == [][C8_Step]_vars

\* A session presented after its 15 minutes is answered as a guest is
C8_Witness ==
    /\ req.stage = "done"
    /\ req.route = "w5s.findOne"
    /\ req.sid \in DOMAIN sessions
    /\ now > sessions[req.sid].createdAt + 15 * 60 * Second
    /\ req.session.userId = "undefined"
    /\ RejectedBy({"Authorized403"})

\* C9: logout destroys the session. The logout handler removes the session
\* the request presented and no other; when the request presented none, or
\* one already destroyed, the store stays as it is and the redirect is sent
\* all the same. A destroyed session never comes back (a new login gets a
\* fresh one), and a request that presents it resolves no identity.
C9_Step ==
    /\ HandlerStepOf({"w3s.logout", "w3s.todoLogout"}) =>
          /\ DOMAIN sessions' = DOMAIN sessions \ {req.sid}
          /\ \A k \in DOMAIN sessions' : sessions'[k] = sessions[k]
          /\ req.sid \notin DOMAIN sessions => sessions' = sessions
          /\ req'.exception = 0
          /\ req'.reply.status = 301
    /\ \A sid \in 1..(nextSid - 1) :
          sid \notin DOMAIN sessions => sid \notin DOMAIN sessions'
    /\ (req.stage = "idle" /\ req'.stage = "guards"
           /\ req'.sid \notin DOMAIN sessions) =>
          /\ req'.session.userId = "undefined"
          /\ ~Authorized(req'.session.userId).pass

C9_LogoutDestroys == [][C9_Step]_vars

\* After its logout a session presented again is sent to the login page
C9_Witness ==
    /\ req.stage = "done"
    /\ req.route = "w3s.taskList"
    /\ req.sid \in 1..(nextSid - 1)
    /\ req.sid \notin DOMAIN sessions
    /\ req.reply = Redirect("/login")

\* Verifying the token at the time it was issued gives back the payload
\* signed for the user u, and the strategy turns it into u's identity
RoundTrip(tok, u) ==
    LET v == verifyToken(tok, StrategySecret(app), tok.iat)
        identity == validate(app, v.payload)
    IN  /\ v.ok
        /\ v.payload = tok.payload
        /\ identity.userId = u.id
        /\ app = "w3j" => /\ tok.payload.sub = u.id
                          /\ tok.payload.username = u.username
                          /\ identity.username = u.username
        /\ app = "w5j" => /\ tok.payload.userId = u.id
                          /\ tok.payload.email = u.email
                          /\ identity.email = u.email

\* C10: token round-trip. Every token the server issues verifies at the
\* time of its issuance and yields the id and the claims of one registered
\* user; the token of a successful login is that of the user whose
\* credentials were presented; and the identity the guard attaches to a
\* request it admits is the one of the user the token was issued to.
C10_RoundTrip ==
    /\ \A tok \in issued : \E i \in DOMAIN users : RoundTrip(tok, users[i])
    /\ (/\ req.stage = "done"
        /\ req.route \in {"w3j.login", "w5j.login"}
        /\ Ran("Handler")
        /\ req.reply.status \in {201, 302})
          => /\ Matching(req) # {}
             /\ \E tok \in issued, i \in Matching(req) :
                   tok.iat <= now /\ RoundTrip(tok, users[i])
    /\ \A k \in DOMAIN req.trace :
          (req.trace[k] = "AuthGuardJwt" /\ AdmittedAt(k))
             => /\ req.token \in issued
                /\ \E i \in DOMAIN users :
                      RoundTrip(req.token, users[i]) /\ req.user.userId = users[i].id

\* The task list is served to the user the cookie's token was issued to
C10_Witness ==
    /\ req.stage = "done"
    /\ req.route = "w3j.taskList"
    /\ Ran("Handler")
    /\ req.token \in issued
    /\ req.user.userId = req.token.payload.sub
    /\ req.user.userId \in {1, 2}

\* The times a token is looked at: at issuance, half way through its
\* lifetime, at its last instant, just after it, and after twice the lifetime
TimesAround(tok) ==
    {tok.iat, tok.iat + 30 * 60 * Second, tok.iat + 60 * 60 * Second,
     tok.iat + 60 * 60 * Second + 1, tok.iat + 2 * 60 * 60 * Second, now}

\* C11: token expiry. A token the server issued verifies at every time up
\* to one hour (the configured lifetime) after it was issued and fails with
\* Expired at every later time, and the JWT guard admits it exactly as long
\* as it verifies: half way through the lifetime it passes, after twice the
\* lifetime it is Expired.
C11_TokenExpiry ==
    \A tok \in issued : \A t \in TimesAround(tok) :
       LET v == verifyToken(tok, StrategySecret(app), t)
           alive == t <= tok.iat + 60 * 60 * Second
       IN  /\ tok.iat <= now
           /\ v.ok = alive
           /\ ~alive => v.error = "Expired"
           /\ AuthGuardJwt(app, tok, t).pass = alive
           /\ ~alive => AuthGuardJwt(app, tok, t).throws = 401

\* An expired token and a live one side by side: the live one is served
C11_Witness ==
    /\ req.stage = "done"
    /\ Ran("Handler")
    /\ req.route \in {"w3j.taskList", "w5j.findAll"}
    /\ verifyToken(req.token, StrategySecret(app), now).ok
    /\ \E old \in issued :
          verifyToken(old, StrategySecret(app), now).error = "Expired"

\* C12: tamper resistance. A token that differs from an issued one in its
\* signature segment fails verification with InvalidSignature at any time,
\* whatever its payload and expiry; the JWT guard never admits a request
\* that carries it, and the guest guard treats it as no identity.
C12_TamperResistance ==
    /\ \A tok \in issued : \A pos \in Positions :
          LET x == Tamper(tok, pos)
          IN  /\ x.sig # tok.sig
              /\ x.payload = tok.payload
              /\ \A t \in {tok.iat, now} :
                    /\ verifyToken(x, StrategySecret(app), t).error = "InvalidSignature"
                    /\ ~AuthGuardJwt(app, x, t).pass
                    /\ AuthGuardJwt(app, x, t).user = NoPayload
                    /\ app = "w3j" => GuestGuard(x, t).pass
    /\ (req.token.kind = "jwt" /\ req.token.sig # ModuleSecret(app)) =>
          /\ ~Ran("AuthGuardLocal") => req.user = NoPayload
          /\ \A k \in DOMAIN req.trace :
                req.trace[k] = "AuthGuardJwt" =>
                   RejectedAt(k) /\ req.exception = 401 /\ ~Ran("Handler")

\* A request with a tampered copy of an issued token is answered 401
C12_Witness ==
    /\ req.stage = "done"
    /\ req.token \in Tampered
    /\ RejectedBy({"AuthGuardJwt"})
    /\ req.reply = BaseExceptionFilter(401)

\* C13: no revocation. No step takes a token out of the set of issued
\* tokens, and after every step (a new login of the same user, a password
\* change, time passing) a token that has not expired still verifies and is
\* admitted by the JWT guard with the identity it was issued for; a request
\* that carries it is admitted whatever happened to the user since.
C13_Step ==
    /\ \A tok \in issued :
          /\ tok \in issued'
          /\ now' <= tok.exp =>
                /\ verifyToken(tok, StrategySecret(app), now').ok
                /\ AuthGuardJwt(app, tok, now').pass
                /\ AuthGuardJwt(app, tok, now').user = validate(app, tok.payload)
    /\ (/\ req.stage = "guards"
        /\ req'.trace = Append(req.trace, "AuthGuardJwt")
        /\ req.token \in issued
        /\ now <= req.token.exp)
          => /\ req'.stage = "guards"
             /\ req'.exception = 0
             /\ req'.user = validate(app, req.token.payload)

C13_NoRevocation == [][C13_Step]_vars

\* After a password change and with a second token of the same user about,
\* the first token is still served
C13_Witness ==
    /\ req.stage = "done"
    /\ req.route = "w5j.findAll"
    /\ Ran("Handler")
    /\ req.token \in issued
    /\ \E i \in DOMAIN users :
          /\ users[i].id = req.token.payload.userId
          /\ users[i].password # RegisteredUsers[i].password

\* What a failed login is answered with, whatever made it fail
GenericFailure ==
    CASE app = "w3s" -> RedirectWith(301, "/todo/login")
      [] app = "w3j" -> BaseExceptionFilter(401)
      [] OTHER -> Json(401, "Invalid credentials")

\* C14: generic login failure. A login whose credentials match no user is
\* answered with one fixed response of the application, the same when the
\* identifier is unknown and when the identifier exists and the password is
\* wrong, and it creates no session and issues no token.
C14_Step ==
    /\ (HandlerStepOf({"w3s.login", "w5s.login", "w5j.login"}) /\ Matching(req) = {})
          => /\ req'.reply = GenericFailure
             /\ req'.sends = 1
             /\ sessions' = sessions /\ nextSid' = nextSid /\ issued' = issued
    /\ (/\ req.route = "w3j.login" /\ req.stage = "guards"
        /\ req'.trace = Append(req.trace, "AuthGuardLocal")
        /\ Matching(req) = {})
          => /\ req'.stage = "filter" /\ req'.exception = 401 /\ req'.sends = 0
             /\ issued' = issued
    /\ (/\ req.route = "w3j.login" /\ req.stage = "filter" /\ req' # req
        /\ req.trace[Len(req.trace)] = "AuthGuardLocal")
          => req'.reply = GenericFailure /\ issued' = issued

C14_GenericFailure == [][C14_Step]_vars

\* A known email with a wrong password gets what an unknown email gets
C14_Witness ==
    /\ req.stage = "done"
    /\ req.route = "w5s.login"
    /\ Ran("Handler")
    /\ req.body.identifier = "alice@mail"
    /\ req.body.password = "pw2"
    /\ req.reply = Json(401, "Invalid credentials")
    /\ sessions = << >>

\* C15: credential round-trip through the service. Right after a user
\* registered with the identifier u and the password p, a login with (u, p)
\* returns that user and a login with (u, p') returns null for every other
\* password p'; the stored digest verifies p and no other password.
C15_Step ==
    (HandlerStepOf(RegisterRoutes) /\ users' # users) =>
       LET u == req.body.identifier
           p == req.body.password
           row == users'[Len(users')]
       IN  /\ Len(users') = Len(users) + 1
           /\ \A i \in DOMAIN users : users'[i] = users[i]
           /\ row[IdField(app)] = u
           /\ row.password # <<"plain", p>>
           /\ login(users', IdField(app), [identifier |-> u, password |-> p]) = row
           /\ app = "w3j" => validateUser(users', u, p).id = row.id
           /\ \A q \in (Passwords \cup {""}) \ {p} :
                 /\ login(users', IdField(app), [identifier |-> u, password |-> q])
                       = NullUser
                 /\ app = "w3j" => validateUser(users', u, q) = NullUser
                 /\ ~verify(row.password, q)
           /\ verify(row.password, p)

C15_CredentialRoundTrip == [][C15_Step]_vars

\* A user who registered logs in with the password of the registration
C15_Witness ==
    /\ req.stage = "done"
    /\ req.route = "w5s.login"
    /\ req.reply = Json(201, "logged in")
    /\ \E i \in DOMAIN users :
          /\ users[i].email = req.body.identifier
          /\ verify(users[i].password, req.body.password)
          /\ sessions[nextSid - 1].userId = ToString(users[i].id)

\* C16: stored credential invariant. The password column of every stored
\* user holds a digest made by the credential verifier, never a value as a
\* client sent it.
C16_StoredDigest ==
    \A i \in DOMAIN users : users[i].password[1] = "argon2"

\* C17: the password digest is never serialized. No reply carries the
\* password of a user, no issued token has a password among the fields of its
\* payload, no session holds more than the user's id, and the user that the
\* credential check hands to the login has no password.
C17_NeverSerialized ==
    /\ req.reply.data.password = NullUser.password
    /\ \A tok \in issued :
          /\ "password" \notin DOMAIN tok.payload
          /\ tok.payload \in {PayloadOf(app, users[i]) : i \in DOMAIN users}
    /\ \A sid \in DOMAIN sessions :
          /\ "password" \notin DOMAIN sessions[sid]
          /\ sessions[sid].userId \in {String(users[i].id) : i \in DOMAIN users}
    /\ \A i \in DOMAIN users : \A p \in Passwords :
          validateUser(users, users[i].username, p).password = NullUser.password

\* The profile of a logged-in user was sent: id, username and email of a row
\* whose password column holds a digest
C17_Witness ==
    /\ req.stage = "done"
    /\ req.route = "w5s.findOne"
    /\ req.reply.status = 201
    /\ \E i \in DOMAIN users :
          /\ users[i].password[1] = "argon2"
          /\ req.reply.data = [users[i] EXCEPT !.password = NullUser.password]

\* C18: error-standardization boundary. Every request that a stage rejected
\* or that raised an exception is answered with the uniform body
\* {statusCode, timestamp, path, message} whose statusCode is the status
\* sent; an exception that is not an HttpException is answered with 500 and
\* the fixed message.
C18_UniformEnvelope ==
    (req.stage = "done" /\ (req.exception # 0 \/ req.reply.status >= 400)) =>
        /\ req.reply.body = {"statusCode", "timestamp", "path", "message"}
        /\ req.reply.statusCode = req.reply.status
        /\ (req.exception # 0 /\ ~instanceofHttpException(req.exception)) =>
              /\ req.reply.status = 500
              /\ req.reply.message = "Internal server error"

\* C19: validation precedes the handler. On every route that takes a DTO, as
\* a JSON body or as multipart fields, the handler runs only with an input
\* that satisfies the constraints of the DTO, and an input that violates one
\* is answered with 400.
C19_ValidationPrecedes ==
    (req.stage = "done" /\ req.route # "" /\ Routes[req.route].dto # "") =>
        /\ Ran("Handler") => Satisfies(Routes[req.route].dto, req.body)
        /\ (Ran("ValidationPipe")
              /\ ~Satisfies(Routes[req.route].dto, req.body)) =>
                 /\ req.exception = 400
                 /\ req.reply.status = 400
                 /\ ~Ran("Handler")

\* C20: the rate-limit counter reflects attempts, not outcomes. The throttler
\* step of a request on a throttled route raises the counter of the
\* request's key by exactly one, whether the request is admitted or answered
\* 429, and leaves every other counter alone; no other step of the pipeline
\* (a later guard, the validation, the handler, the filter, the end of the
\* request) touches the store, and no step lowers a counter while its window
\* is open.
C20_Step ==
    LET atThrottler == /\ req.stage = "guards"
                       /\ req.gi = 1
                       /\ req'.trace = <<"ThrottlerGuard">>
        redis == <<"redis", 0>>
    IN  /\ (atThrottler /\ ~Routes[req.route].skip) =>
              LET key == KeyOf(req.route, req.ip)
              IN  /\ key \in DOMAIN storage'[redis]
                  /\ storage'[redis][key].totalHits
                        = Counted(storage[redis], key, now) + 1
                  /\ req'.stage = "filter" => req'.exception = 429
                  /\ \A k \in DOMAIN storage[redis] \ {key} :
                        storage'[redis][k] = storage[redis][k]
                  /\ \A s \in Stores \ {redis} : storage'[s] = storage[s]
        /\ ~(atThrottler /\ ~Routes[req.route].skip) => storage' = storage
        /\ \A s \in Stores : \A k \in DOMAIN storage[s] :
              /\ k \in DOMAIN storage'[s]
              /\ Live(storage[s], k, now) =>
                    storage'[s][k].totalHits >= storage[s][k].totalHits

C20_CounterReflectsAttempts == [][C20_Step]_vars

\* A request over the limit was answered 429 and is counted all the same: the
\* counter of its key stands above the limit
C20_Witness ==
    /\ req.stage = "done"
    /\ req.exception = 429
    /\ req.reply.status = 429
    /\ ~Ran("Handler")
    /\ storage[<<"redis", 0>>][KeyOf(req.route, req.ip)].totalHits = limit + 1

\* C21: per-route override. A request to a route whose method or controller
\* is declared skip (AppController's index among them) passes the throttler
\* and changes no counter, whatever the counters hold; on every other route
\* the throttler counts the request against the (limit, ttl) of the method,
\* else of the class, else of the global default.
C21_Step ==
    (req.stage = "guards" /\ req.gi = 1 /\ req'.trace = <<"ThrottlerGuard">>) =>
        LET m == IF req.route = "w5s.declared" THEN declared.method ELSE Undeclared
            c == IF req.route = "w5s.declared" THEN declared.class
                 ELSE IF req.route \in {"w5s.index", "w5j.index"}
                      THEN SkipThrottle ELSE Undeclared
            skipped == \/ m.skip = "true"
                       \/ m.skip = "" /\ c.skip = "true"
            L == IF m.limit # 0 THEN m.limit
                 ELSE IF c.limit # 0 THEN c.limit ELSE 10
            T == IF m.ttl # 0 THEN m.ttl
                 ELSE IF c.ttl # 0 THEN c.ttl ELSE 60 * Second
            key == KeyOf(req.route, req.ip)
            n == Counted(storage[<<"redis", 0>>], key, now)
        IN  IF skipped
            THEN /\ storage' = storage
                 /\ req'.stage = "guards" /\ req'.gi = 2
            ELSE /\ storage'[<<"redis", 0>>][key].totalHits = n + 1
                 /\ (n = 0) => storage'[<<"redis", 0>>][key].expiresAt = now + T
                 /\ (n < L) => (req'.stage = "guards" /\ req'.gi = 2)
                 /\ (n >= L) => (req'.stage = "filter" /\ req'.exception = 429)

C21_PerRouteOverride == [][C21_Step]_vars

\* With @Throttle(2, 1 s) on the method and @Throttle(3, 2 s) on the class,
\* the third request of the window is answered 429
C21_Witness ==
    /\ declared = [method |-> Throttle(2, Second), class |-> Throttle(3, 2 * Second)]
    /\ req.route = "w5s.declared"
    /\ req.stage = "done"
    /\ req.exception = 429
    /\ storage[<<"redis", 0>>][KeyOf("w5s.declared", "10.0.0.1")].totalHits = 3

\* C22: per-key isolation of the rate limit. The counter of a key (a route
\* and a client address) is written only by the throttler step of a request
\* with that key, and the throttler admits a request exactly when fewer than
\* limit requests of its own key are counted in the open window: the requests
\* of another client, however many, admitted or rejected, change neither.
C22_Step ==
    LET redis == <<"redis", 0>>
        atThrottler == /\ req.stage = "guards"
                       /\ req.gi = 1
                       /\ req'.trace = <<"ThrottlerGuard">>
        own == <<req.route, req.ip>>
    IN  /\ \A k \in DOMAIN storage'[redis] :
              (k \notin DOMAIN storage[redis]
                 \/ storage'[redis][k] # storage[redis][k])
                => (atThrottler /\ k = own)
        /\ DOMAIN storage[redis] \subseteq DOMAIN storage'[redis]
        /\ (atThrottler /\ ~Routes[req.route].skip) =>
              LET mine == IF own \in DOMAIN storage[redis]
                             /\ now < storage[redis][own].expiresAt
                          THEN storage[redis][own].totalHits
                          ELSE 0
              IN  /\ (req'.stage = "guards") <=> (mine < 10)
                  /\ (req'.stage = "filter") <=> (mine >= 10)

C22_PerKeyIsolation == [][C22_Step]_vars

\* One client has used up its window and been answered 429; the first
\* request of another client on the same route passes the throttler
C22_Witness ==
    LET k1 == <<"w5j.findAll", "10.0.0.1">>
        k2 == <<"w5j.findAll", "10.0.0.2">>
        st == storage[<<"redis", 0>>]
    IN  /\ DOMAIN st = {k1, k2}
        /\ st[k2].totalHits = 11
        /\ now < st[k2].expiresAt
        /\ st[k1].totalHits = 1
        /\ req.ip = "10.0.0.1"
        /\ req.trace = <<"ThrottlerGuard">>
        /\ req.stage = "guards"

\* C23: identity hand-off. When a request that an authenticated-required
\* guard admitted reaches its handler, the guard has resolved a user, and the
\* user id the handler hands to the services is the id that the guard
\* resolved: the session's userId in session mode, request.user.userId in
\* token mode; never NaN, never another user's.
C23_IdentityHandOff ==
    (req.stage \in {"done", "filter"} /\ Ran("Handler")
       /\ \E g \in AuthRequired : Ran(g)) =>
        LET resolved == IF Ran("AuthGuardJwt")
                        THEN req.user.userId
                        ELSE parseInt(req.session.userId)
        IN  /\ resolved > 0
            /\ req.subject # 0 => req.subject = resolved

\* The state of the guards' decision on the request in flight
GuardState(rq) ==
    IF rq.stage = "idle" THEN "Unresolved"
    ELSE IF rq.stage = "guards" THEN "Resolving"
    ELSE IF \E i \in DOMAIN rq.trace :
               /\ rq.trace[i] \in AuthRequired \cup GuestRequired
                                  \cup {"ThrottlerGuard", "AuthGuardLocal"}
               /\ \/ i = Len(rq.trace) /\ rq.stage = "filter"
                  \/ i < Len(rq.trace) /\ rq.trace[i + 1] = "ExceptionFilter"
         THEN "Rejected"
         ELSE "Admitted"

\* C24: per-request guard state machine. A request goes from Unresolved to
\* Resolving and from there to Admitted or to Rejected; it stays in that
\* state until it has been answered, never goes back to Resolving, a rejected
\* request never reaches the handler, the client gets one response, which no
\* later send replaces, and every request that entered the guards is
\* answered.
C24_Step ==
    LET from == GuardState(req)
        to   == GuardState(req')
        ends == req' = Idle /\ served' = served + 1
    IN  /\ from = "Unresolved" => to \in {"Unresolved", "Resolving"}
        /\ from = "Resolving" => to \in {"Resolving", "Admitted", "Rejected"}
        /\ from = "Admitted" => (to = "Admitted" \/ ends)
        /\ from = "Rejected" => (to = "Rejected" \/ ends)
        /\ to = "Rejected" => ~Ran("Handler")'
        /\ ends => (req.stage = "done" /\ req.reply # NoReply /\ req.sends >= 1)
        /\ (req.reply # NoReply /\ ~ends) => req'.reply = req.reply

C24_GuardStateMachine ==
    /\ [][C24_Step]_vars
    /\ (GuardState(req) = "Resolving") ~> (req.stage = "done")

\* A request was rejected by its guard, which answered 403 itself; the
\* exception that followed sent nothing more to the client
C24_Witness ==
    /\ req.stage = "done"
    /\ GuardState(req) = "Rejected"
    /\ req.trace = <<"ThrottlerGuard", "Authorized403", "ExceptionFilter">>
    /\ req.sends = 2
    /\ req.reply = Json(403, "Not Authorized")

\* C25: task ownership isolation. A call of create, findAll, update or remove
\* made with the id of user A leaves every task of every other user as it
\* was, in the table and unchanged; a task that appears belongs to A; and
\* findAll(A) returns the tasks that A owns and no others.
C25_Step ==
    LET A == req'.subject
    IN  (req'.route \in {"TaskService.create", "TaskService.findAll",
                         "TaskService.update", "TaskService.remove"}) =>
          /\ \A t \in tasks.rows : t.user # A => t \in tasks'.rows
          /\ \A t \in tasks'.rows : t.user # A => t \in tasks.rows
          /\ \A t \in tasks'.rows \ tasks.rows : t.user = A /\ t.user \in UserIds
          /\ \A B \in Callers \ {A} :
                TaskFindAll(tasks', B) = TaskFindAll(tasks, B)
          /\ \A t \in TaskFindAll(tasks', A) : t.user = A
          /\ req'.route = "TaskService.findAll" => tasks' = tasks

C25_OwnershipIsolation == [][C25_Step]_vars

\* The only task is Bob's; Alice has called update with her id, and Bob's
\* task is as he created it
C25_Witness ==
    /\ req.route = "TaskService.update"
    /\ req.subject = 1
    /\ tasks.last = 1
    /\ tasks.rows = {[id |-> 1, name |-> "buy milk", state |-> "active", user |-> 2]}

\* C26: the password change takes effect for the logged-in user. When PATCH
\* user/password of an authenticated user U with the new password p' is
\* answered 'Password updated successfully', a login of U with p' succeeds,
\* a login of U with any other password fails, and the stored password of
\* every other user is what it was.
C26_Step ==
    (HandlerStepOf({"w5s.updatePassword", "w5j.updatePassword"})
       /\ req'.reply = Json(201, "Password updated successfully")) =>
        LET uid == IF app = "w5j" THEN req.user.userId
                   ELSE parseInt(req.session.userId)
            U == findOne(users, "id", uid)
            p == req.body.password
        IN  /\ U # NullUser
            /\ login(users', "email", [identifier |-> U.email, password |-> p]).id
                  = uid
            /\ \A q \in Passwords \ {p} :
                  login(users', "email", [identifier |-> U.email, password |-> q])
                      = NullUser
            /\ \A i \in DOMAIN users :
                  users[i].id # uid => users'[i] = users[i]

C26_PasswordChange == [][C26_Step]_vars

\* C27: update or remove of a missing or foreign task is an error. When the
\* handler of PUT tasks/:id or DELETE tasks/:id runs for a task id that names
\* no task of the requesting user, no task is changed or deleted and the
\* request is answered with an error, not with 'Task updated successfully'
\* or 'Task deleted successfully'; whenever one of these is sent, the change
\* has been applied.
C27_Step ==
    LET changing == {"w5s.updateTask", "w5j.updateTask",
                     "w5s.removeTask", "w5j.removeTask"}
        hit == Affected(tasks, req.task.id, UserIdOf(req))
    IN  /\ (req.stage = "handler" /\ req.route \in changing /\ req' # req) =>
              /\ hit = {} =>
                    /\ tasks' = tasks
                    /\ req'.stage = "filter"
                    /\ req'.sends = 0
              /\ req'.reply.status = 201 =>
                    /\ hit # {}
                    /\ tasks' # tasks
        /\ (req.stage = "filter" /\ req.route \in changing /\ req' # req
              /\ Ran("Handler")) =>
              /\ req'.reply.status = 500
              /\ tasks' = tasks

C28_Step ==
    HandlerStepOf({"w3s.login"}) =>
        LET user == login(users, "username", req.body)
        IN  /\ req'.sends = 1
            /\ IF user # NullUser
               THEN /\ sessions' = create(sessions, nextSid, String(user.id), now)
                    /\ req'.reply = RedirectWith(301, "/")
               ELSE /\ sessions' = sessions
                    /\ req'.reply = RedirectWith(301, "/todo/login")

C28_LoginSendsOnce == [][C28_Step]_vars

\* C29: outcomes of the cookie-token guest guard. GuestGuard admits a
\* request with no token cookie; for a token that verifies it redirects to
\* /todo and returns false, and does not clear the cookie; for a token that
\* fails verification (bad signature, malformed or expired) it clears the
\* cookie and admits the request, so a client with a stale token gets the
\* login page.
C29_Verifies(tok) == tok \in issued /\ now <= tok.exp

C29_Step ==
    (/\ req.stage = "guards"
     /\ req.gi <= Len(GuardsOf(req.route))
     /\ GuardsOf(req.route)[req.gi] = "GuestGuard"
     /\ req' # req) =>
        LET admitted == req'.stage = "guards" /\ req'.gi = req.gi + 1
        IN  /\ req.token.kind = "none" =>
                  admitted /\ req'.sends = 0 /\ ~req'.clear
            /\ (req.token.kind # "none" /\ C29_Verifies(req.token)) =>
                  /\ ~admitted
                  /\ req'.stage = "filter"
                  /\ req'.reply = Redirect("/todo")
                  /\ req'.sends = 1
                  /\ ~req'.clear
            /\ (req.token.kind # "none" /\ ~C29_Verifies(req.token)) =>
                  admitted /\ req'.sends = 0 /\ req'.clear

C29_LoginPageReached ==
    (/\ req.stage = "done"
     /\ req.route = "w3j.loginPage"
     /\ req.token.kind # "none"
     /\ (req.token \notin issued \/ req.clear)) =>
        Ran("Handler") /\ req.reply = Json(200, "") /\ req.clear

C29_GuestGuardOutcomes == [][C29_Step]_vars /\ []C29_LoginPageReached

\* A client whose token has expired asked for the login page and got it;
\* the cookie is cleared
C29_Witness ==
    /\ req.stage = "done"
    /\ req.route = "w3j.loginPage"
    /\ req.token \in issued
    /\ now > req.token.exp
    /\ req.trace = <<"GuestGuard", "ValidationPipe", "Handler">>
    /\ req.clear
    /\ req.reply = Json(200, "")

\* C30: identifier uniqueness. After any sequence of register calls no two
\* stored users have the same username (or, in workshop 5, the same email).
\* A register call whose identifier is already taken fails and leaves the
\* user table as it was, so the owner of the identifier can still log in
\* with the password that was registered; a register call with a free
\* identifier adds one user.
C30_Field == IF app = "w5s" THEN "email" ELSE "username"

C30_Unique ==
    \A i, j \in DOMAIN users :
        i # j => /\ users[i].username # users[j].username
                 /\ users[i].id # users[j].id
                 /\ app = "w5s" => users[i].email # users[j].email

C30_Step ==
    (req.stage = "handler" /\ req.route \in RegisterRoutes /\ req' # req) =>
        LET owners == {i \in DOMAIN users :
                         \/ users[i].username = UsernameFor(req.body.identifier)
                         \/ app = "w5s" /\ users[i].email = req.body.identifier}
        IN  IF owners # {}
            THEN /\ users' = users
                 /\ req'.stage = "filter"
                 /\ req'.exception < 400
                 /\ req'.sends = 0
                 /\ \A i \in owners, p \in Passwords :
                       LET dto == [identifier |-> users[i][C30_Field],
                                   password |-> p]
                       IN  login(users, C30_Field, dto) = users[i] =>
                              login(users', C30_Field, dto) = users[i]
            ELSE /\ Len(users') = Len(users) + 1
                 /\ \A i \in DOMAIN users : users'[i] = users[i]
                 /\ users'[Len(users')][C30_Field] = req.body.identifier
                 /\ req'.stage = "done"

C30_IdentifierUniqueness == []C30_Unique /\ [][C30_Step]_vars

\* Somebody tried to register alice's identifier with another password: the
\* answer is an error and alice is the only user of that name, with her
\* password
C30_Witness ==
    /\ req.stage = "done"
    /\ req.route \in RegisterRoutes
    /\ Ran("Handler")
    /\ req.reply.status = 500
    /\ req.body.password = "pw2"
    /\ Len(users) >= 1
    /\ users[1][C30_Field] = req.body.identifier
    /\ login(users, C30_Field,
             [identifier |-> req.body.identifier, password |-> "pw1"]) = users[1]
====
